---- MODULE Spec2Model ----
(***************************************************************************)
(* Trace-to-operation-log generation (bus-mapping) of the WASM zkEVM.      *)
(*                                                                         *)
(* The model follows src/bus-mapping/src/wasm/opcodes.rs: the per-step     *)
(* entry point gen_associated_ops with its error dispatcher, the           *)
(* transaction prologue gen_begin_tx_ops, the epilogue gen_end_tx_ops and  *)
(* the SELFDESTRUCT handler.  The orchestrator primitives those functions  *)
(* call (push_op, push_op_reversible, handle_return, handle_reversion,     *)
(* parse_call, push_call, ...) live in circuit_input_builder, which is     *)
(* outside src/; they are modelled from the specification text.            *)
(***************************************************************************)
EXTENDS Integers, Sequences, FiniteSets, TLC

VARIABLES
    container,   \* Operation Container: the append-only operation log
    rwc,         \* block_ctx.rwc: the next read-write counter to hand out
    sdb,         \* State Database: accounts, access list, refund counter
    calls,       \* Call Context Stack of the running transaction (top = last)
    groups,      \* tx_ctx.reversion_groups: one per failing call on the stack
    tx,          \* the running transaction and its tx_ctx
    block_ctx,   \* cumulative gas used and number of transactions handled
    pc,          \* position of the block-processing loop
    last,        \* outcome of the last top-level function that ran
    circuit      \* the WASM circuit: bytecode, assigned region, shared state

vars == <<container, rwc, sdb, calls, groups, tx, block_ctx, pc, last, circuit>>

\* the WASM circuit while the bus-mapping runs: nothing is assigned
NoCircuit == [wb |-> <<>>, region |-> <<>>]

(***************************************************************************)
(* Bounds of the model.                                                    *)
(***************************************************************************)
\* transactions of the block
MaxTxs == 2
\* trace steps handled in one transaction
MaxSteps == 2
\* the protocol's maximum call depth (1024), scaled down
MaxCallDepth == 2

(***************************************************************************)
(* Values.                                                                 *)
(***************************************************************************)
\* the accounts of a block: a precompile, an externally owned account, a
\* contract, and an address absent from the State Database
Accounts == [precompile |-> 1, eoa |-> 16, contract |-> 17, fresh |-> 18]
Addr == {Accounts.precompile, Accounts.eoa, Accounts.contract, Accounts.fresh}

\* code hashes: the zero word, the hash of the empty code, a contract's
\* code hash and the hash of a creation transaction's init code
CodeHash == [zero |-> 0, empty |-> 1, code |-> 2, init |-> 3]

is_precompiled(a) == a \in 1..9

Min(a, b) == IF a <= b THEN a ELSE b

\* Seq helpers
Last(s) == s[Len(s)]
Front(s) == SubSeq(s, 1, Len(s) - 1)

(***************************************************************************)
(* Operations.  Every operation carries rw, a key (tag, id, addr, field)   *)
(* and a value; account, access-list and refund operations also carry the  *)
(* previous value (the others repeat the value there).                     *)
(***************************************************************************)
Op(tag, id, addr, field, value, value_prev) ==
    [tag |-> tag, id |-> id, addr |-> addr, field |-> field,
     value |-> value, value_prev |-> value_prev]

AccountOp(address, field, value, value_prev) ==
    Op("Account", 0, address, field, value, value_prev)
CallContextOp(call_id, field, value) ==
    Op("CallContext", call_id, 0, field, value, value)
TxAccessListAccountOp(tx_id, address, is_warm, is_warm_prev) ==
    Op("TxAccessListAccount", tx_id, address, "", is_warm, is_warm_prev)
TxRefundOp(tx_id, value, value_prev) ==
    Op("TxRefund", tx_id, 0, "", value, value_prev)
TxReceiptOp(tx_id, field, value) ==
    Op("TxReceipt", tx_id, 0, field, value, value)
StackOp(call_id, address, value) ==
    Op("Stack", call_id, address, "", value, value)
MemoryOp(call_id, address, value) ==
    Op("Memory", call_id, address, "", value, value)
GlobalOp(call_id, index, value) ==
    Op("Global", call_id, index, "", value, value)
StorageOp(address, key, value, value_prev) ==
    Op("Storage", 0, address, key, value, value_prev)

Key(o) == <<o.tag, o.id, o.addr, o.field>>
HasPrev(o) == o.tag \in {"Account", "Storage", "TxAccessListAccount", "TxRefund"}

(***************************************************************************)
(* State Database.                                                         *)
(***************************************************************************)
InitSdb ==
    [balance   |-> [a \in Addr |->
                      IF a = Accounts.eoa THEN 1000000
                      ELSE IF a = Accounts.contract THEN 50 ELSE 0],
     nonce     |-> [a \in Addr |-> IF a = Accounts.contract THEN 1 ELSE 0],
     code_hash |-> [a \in Addr |->
                      IF a = Accounts.contract THEN CodeHash.code
                      ELSE IF a = Accounts.eoa THEN CodeHash.empty
                      ELSE CodeHash.zero],
     \* one storage slot per account
     storage   |-> [a \in Addr |-> IF a = Accounts.contract THEN 1 ELSE 0],
     found     |-> {Accounts.eoa, Accounts.contract},
     destructed |-> {},
     access    |-> {},
     refund    |-> 0]

\* Account::is_empty
is_empty(db, a) ==
    /\ db.nonce[a] = 0
    /\ db.balance[a] = 0
    /\ db.code_hash[a] \in {CodeHash.zero, CodeHash.empty}

\* Account::code_hash: a default account holds the hash of the empty code;
\* the operations record the zero word for it while the account is empty
account_code_hash(db, a) ==
    IF db.code_hash[a] = CodeHash.zero THEN CodeHash.empty ELSE db.code_hash[a]

\* the value the State Database holds for the key of an operation
SdbValue(db, o) ==
    CASE o.tag = "Account" /\ o.field = "Balance" -> db.balance[o.addr]
      [] o.tag = "Account" /\ o.field = "Nonce" -> db.nonce[o.addr]
      [] o.tag = "Account" /\ o.field = "CodeHash" -> db.code_hash[o.addr]
      [] o.tag = "Storage" -> db.storage[o.addr]
      [] o.tag = "TxAccessListAccount" -> IF o.addr \in db.access THEN 1 ELSE 0
      [] o.tag = "TxRefund" -> db.refund
      [] OTHER -> 0

\* apply_op / check_update_sdb_account: a write stores its value
ApplyOp(db, o) ==
    CASE o.tag = "Account" /\ o.field = "Balance" ->
            [db EXCEPT !.balance[o.addr] = o.value, !.found = @ \cup {o.addr}]
      [] o.tag = "Account" /\ o.field = "Nonce" ->
            [db EXCEPT !.nonce[o.addr] = o.value, !.found = @ \cup {o.addr}]
      [] o.tag = "Account" /\ o.field = "CodeHash" ->
            [db EXCEPT !.code_hash[o.addr] = o.value, !.found = @ \cup {o.addr}]
      [] o.tag = "Storage" -> [db EXCEPT !.storage[o.addr] = o.value]
      [] o.tag = "TxAccessListAccount" ->
            [db EXCEPT !.access =
                 IF o.value = 1 THEN @ \cup {o.addr} ELSE @ \ {o.addr}]
      [] o.tag = "TxRefund" -> [db EXCEPT !.refund = o.value]
      [] OTHER -> db

\* the account fields and storage slots the State Database holds
AccountView(db) ==
    [balance |-> db.balance, nonce |-> db.nonce,
     code_hash |-> [a \in Addr |-> account_code_hash(db, a)],
     storage |-> db.storage]

(***************************************************************************)
(* Orchestrator primitives.  They act on the record                        *)
(*   s = [container, rwc, sdb, calls, groups, undone]                      *)
(* and return the record after the call; undone remembers the reversion    *)
(* group that the running function has undone, if any.                     *)
(***************************************************************************)
NotUndone == [valid |-> FALSE, snap |-> AccountView(InitSdb), n |-> 0]
State == [container |-> container, rwc |-> rwc, sdb |-> sdb,
          calls |-> calls, groups |-> groups, undone |-> NotUndone]

\* push_op: the operation gets the next rwc and is appended; a write is
\* applied to the State Database, a read leaves it alone
push_op(s, rw, op) ==
    [s EXCEPT
       !.container = Append(@, [tag |-> op.tag, id |-> op.id, addr |-> op.addr,
                                field |-> op.field, value |-> op.value,
                                value_prev |-> op.value_prev,
                                rwc |-> s.rwc, rw |-> rw, reversion |-> FALSE]),
       !.rwc = @ + 1,
       !.sdb = IF rw = "WRITE" THEN ApplyOp(@, op) ELSE @]

\* push_op_reversible: a write that is also recorded in the reversible log
\* when the current call is not persistent
record_reversible(t) ==
    [t EXCEPT !.groups[Len(t.groups)].op_refs = Append(@, Len(t.container))]

push_op_reversible(s, op) ==
    IF Last(s.calls).is_persistent
    THEN push_op(s, "WRITE", op)
    ELSE record_reversible(push_op(s, "WRITE", op))

account_write(s, address, field, value, value_prev) ==
    push_op(s, "WRITE", AccountOp(address, field, value, value_prev))
account_read(s, address, field, value) ==
    push_op(s, "READ", AccountOp(address, field, value, value))
call_context_write(s, call_id, field, value) ==
    push_op(s, "WRITE", CallContextOp(call_id, field, value))
call_context_read(s, call_id, field, value) ==
    push_op(s, "READ", CallContextOp(call_id, field, value))
tx_accesslist_account_write(s, tx_id, address, is_warm, is_warm_prev) ==
    push_op(s, "WRITE", TxAccessListAccountOp(tx_id, address, is_warm, is_warm_prev))
tx_receipt_write(s, tx_id, field, value) ==
    push_op(s, "WRITE", TxReceiptOp(tx_id, field, value))
tx_receipt_read(s, tx_id, field, value) ==
    push_op(s, "READ", TxReceiptOp(tx_id, field, value))
memory_write(s, address, value) ==
    push_op(s, "WRITE", MemoryOp(Last(s.calls).call_id, address, value))
global_write(s, index, value) ==
    push_op(s, "WRITE", GlobalOp(Last(s.calls).call_id, index, value))
stack_write(s, address, value) ==
    push_op(s, "WRITE", StackOp(Last(s.calls).call_id, address, value))
stack_read(s, address, value) ==
    push_op(s, "READ", StackOp(Last(s.calls).call_id, address, value))

\* call_ctx_mut()?.memory = ...: the memory of the current call context
set_call_ctx_memory(s, memory) ==
    [s EXCEPT !.calls[Len(s.calls)].memory = memory]

\* a sequence of call-context writes, in the order given
RECURSIVE call_context_writes(_, _, _)
call_context_writes(s, call_id, fields) ==
    IF fields = <<>> THEN s
    ELSE call_context_writes(
             call_context_write(s, call_id, fields[1][1], fields[1][2]),
             call_id, Tail(fields))

\* push_call: the frame goes on the Call Context Stack; a call that fails
\* opens a reversion group
push_call(s, call) ==
    [s EXCEPT
       !.calls = Append(@, call),
       !.groups = IF call.is_success THEN @
                  ELSE Append(@, [op_refs |-> <<>>,
                                  snap |-> AccountView(s.sdb)])]

\* the compensating operations of a reversion group: its operations in
\* reverse order, each with value and previous value swapped
compensating(o) == Op(o.tag, o.id, o.addr, o.field, o.value_prev, o.value)

mark_reversion(t) == [t EXCEPT !.container[Len(t.container)].reversion = TRUE]

RECURSIVE apply_reversions(_, _)
apply_reversions(s, refs) ==
    IF refs = <<>> THEN s
    ELSE apply_reversions(
             mark_reversion(
                 push_op(s, "WRITE", compensating(s.container[Last(refs)]))),
             Front(refs))

\* handle_reversion: pops the last reversion group and undoes it
handle_reversion(s) ==
    apply_reversions(
        [s EXCEPT !.groups = Front(@),
                  !.undone = [valid |-> TRUE, snap |-> Last(s.groups).snap,
                              n |-> Len(Last(s.groups).op_refs)]],
        Last(s.groups).op_refs)

\* handle_return: reverts the current call when it fails, then pops it
\* (restoring the caller's context emits no account operation)
pop_call(t) == [t EXCEPT !.calls = Front(@)]

handle_return(s, need_restore) ==
    pop_call(IF Last(s.calls).is_success THEN s ELSE handle_reversion(s))

\* parse_call: the frame of a nested call or create, one level deeper
\* than the current call; the trace decides whether it succeeds
parse_call(s, address, value, is_create, is_static, is_success) ==
    LET caller == Last(s.calls)
    IN  [call_id |-> s.rwc,
         caller_address |-> caller.address,
         address |-> address,
         depth |-> caller.depth + 1,
         is_root |-> FALSE,
         is_create |-> is_create,
         is_static |-> is_static \/ caller.is_static,
         is_success |-> is_success,
         is_persistent |-> caller.is_persistent /\ is_success,
         value |-> value,
         code_hash |-> account_code_hash(s.sdb, address),
         \* push_call copies the global memory of the trace into the frame
         memory |-> caller.memory]

\* transfer_with_fee, the fee: charged with a plain write, after which the
\* root call starts (fee is an Option: <<>> is None, <<f>> is Some(f))
root_call_starts(s) ==
    IF s.groups = <<>> THEN s
    ELSE [s EXCEPT !.groups[Len(s.groups)].snap = AccountView(s.sdb)]

transfer_fee(s, sender, fee) ==
    IF fee = <<>> THEN s
    ELSE root_call_starts(
             account_write(s, sender, "Balance",
                           s.sdb.balance[sender] - fee[1], s.sdb.balance[sender]))

\* transfer_with_fee, the value: moved with reversible writes, creating the
\* receiver when needed
transfer_debit(s, sender, value) ==
    push_op_reversible(s,
        AccountOp(sender, "Balance", s.sdb.balance[sender] - value,
                  s.sdb.balance[sender]))

transfer_create(s, receiver, receiver_exists, must_create, value) ==
    IF ~receiver_exists /\ (value # 0 \/ must_create)
    THEN push_op_reversible(s,
             AccountOp(receiver, "CodeHash", CodeHash.empty, CodeHash.zero))
    ELSE s

transfer_credit(s, receiver, value) ==
    IF value = 0 THEN s
    ELSE push_op_reversible(s,
             AccountOp(receiver, "Balance", s.sdb.balance[receiver] + value,
                       s.sdb.balance[receiver]))

transfer_with_fee(s, sender, receiver, receiver_exists, must_create, value, fee) ==
    transfer_credit(
        transfer_create(
            transfer_debit(transfer_fee(s, sender, fee), sender, value),
            receiver, receiver_exists, must_create, value),
        receiver, value)

\* StateDB::increase_nonce: adds one to the nonce and returns it
increase_nonce(db, a) == [db EXCEPT !.nonce[a] = @ + 1]

\* get_contract_address(caller, nonce): the address a creation deploys to
get_contract_address(caller, nonce) == Accounts.fresh

\* Stack::nth_last_filled(k) of a stack holding len words
nth_last_filled(len, k) == 1024 - len + k

b2n(b) == IF b THEN 1 ELSE 0

(***************************************************************************)
(* Block and transaction inputs.                                           *)
(***************************************************************************)
GasCost == [TX |-> 21000, CREATION_TX |-> 53000, SSTORE_CLEARS_SCHEDULE |-> 4800,
            QUICK |-> 2, COLD_SLOAD |-> 2100, WARM_ACCESS |-> 100,
            SSTORE_SET |-> 20000, SSTORE_RESET |-> 2900, SSTORE_SENTRY |-> 2300]
MAX_REFUND_QUOTIENT_OF_GAS_USED == 5

\* block header and fee parameters of the modelled block
Block == [base_fee |-> 1, gas_price |-> 3, gas |-> 60000, l1_fee |-> 7]

\* the base fees of the modelled blocks: below the gas price, and equal to
\* it (no tip)
BaseFees == {Block.base_fee, Block.gas_price}

\* the cost the trace reports for one opcode step, and for the run of a
\* precompile
StepGas == [opcode |-> 2, precompile |-> 18]

RECURSIVE call_data_gas_cost(_)
call_data_gas_cost(input) ==
    IF input = <<>> THEN 0
    ELSE (IF input[1] = 0 THEN 4 ELSE 16) + call_data_gas_cost(Tail(input))

(***************************************************************************)
(* gen_begin_tx_ops                                                        *)
(*   t  : the transaction (id, caller_address, address, is_create, value,  *)
(*        nonce, input, gas, gas_price, l1_fee)                            *)
(*   tr : its trace (struct_logs_gas: the gas of each step, gas: the gas   *)
(*        used, global_memory, globals, num_locals)                        *)
(* The result is [s, result, gas_cost].                                    *)
(***************************************************************************)
\* lines 600-607: the State Database's nonce is raised to the transaction's
RECURSIVE raise_nonce(_, _, _)
raise_nonce(db, a, target) ==
    IF db.nonce[a] < target THEN raise_nonce(increase_nonce(db, a), a, target)
    ELSE db

\* a faulty variant of warm_up: every address is written as new to the
\* access list
RECURSIVE warm_up_as_new(_, _, _)
warm_up_as_new(s, tx_id, addresses) ==
    IF addresses = <<>> THEN s
    ELSE warm_up_as_new(
             tx_accesslist_account_write(
                 [s EXCEPT !.sdb.access = @ \cup {addresses[1]}],
                 tx_id, addresses[1], 1, 0),
             tx_id, Tail(addresses))

\* lines 616-639: the access-list writes, in the order of the addresses
RECURSIVE warm_up(_, _, _)
warm_up(s, tx_id, addresses) ==
    IF addresses = <<>> THEN s
    ELSE warm_up(
             tx_accesslist_account_write(
                 [s EXCEPT !.sdb.access = @ \cup {addresses[1]}],
                 tx_id, addresses[1], 1, b2n(addresses[1] \in s.sdb.access)),
             tx_id, Tail(addresses))

\* lines 811-814: one memory write per byte of the global memory
RECURSIVE init_memory(_, _, _)
init_memory(s, bytes, i) ==
    IF i > Len(bytes) THEN s
    ELSE init_memory(memory_write(s, i - 1, bytes[i]), bytes, i + 1)

\* lines 815-818: one global write per global variable
RECURSIVE init_globals(_, _)
init_globals(s, globals) ==
    IF globals = <<>> THEN s
    ELSE init_globals(global_write(s, globals[1].index, globals[1].value),
                      Tail(globals))

\* lines 828-831: the locals are zeroed, the i-th at slot
\* nth_last_filled(num_locals - i - 1) of the first step's stack
RECURSIVE init_locals(_, _, _, _)
init_locals(s, stack_len, num_locals, i) ==
    IF i >= num_locals THEN s
    ELSE init_locals(
             stack_write(s, nth_last_filled(stack_len, num_locals - i - 1), 0),
             stack_len, num_locals, i + 1)

\* lines 738-764 and 774-797: the call-context fields of the callee frame
callee_frame_fields(call, callee_address, call_data_length, is_create, code_hash) ==
    << <<"Depth", call.depth>>,
       <<"CallerAddress", call.caller_address>>,
       <<"CalleeAddress", callee_address>>,
       <<"CallDataOffset", 0>>,
       <<"CallDataLength", call_data_length>>,
       <<"Value", call.value>>,
       <<"IsStatic", b2n(call.is_static)>>,
       <<"LastCalleeId", 0>>,
       <<"LastCalleeReturnDataOffset", 0>>,
       <<"LastCalleeReturnDataLength", 0>>,
       <<"IsRoot", 1>>,
       <<"IsCreate", is_create>>,
       <<"CodeHash", code_hash>> >>

Shanghai == FALSE

\* a faulty variant of begin_tx_gas_cost: a trace without steps costs
\* nothing
begin_tx_gas_cost_steps_only(tx_gas, struct_logs_gas, trace_gas) ==
    IF struct_logs_gas = <<>> THEN 0
    ELSE tx_gas - struct_logs_gas[1]

\* lines 641-651: the intrinsic gas of a transaction
intrinsic_gas_cost(is_create, input) ==
    (IF is_create THEN GasCost.CREATION_TX ELSE GasCost.TX)
    + call_data_gas_cost(input)

\* lines 804-808: the gas the begin-tx step costs
begin_tx_gas_cost(tx_gas, struct_logs_gas, trace_gas) ==
    IF struct_logs_gas = <<>> THEN trace_gas
    ELSE tx_gas - struct_logs_gas[1]

\* a faulty variant of begin_tx_precompile_reversion: the reversion is left
\* to the trace steps, of which a precompile has none
begin_tx_no_reversion(s, is_precompile) == s

\* lines 844-851: a failing call to a precompile is reverted at once, since
\* no trace step follows that could do it
begin_tx_precompile_reversion(s, is_precompile) ==
    IF is_precompile /\ ~Last(s.calls).is_success THEN handle_reversion(s) ELSE s

\* lines 811-851: the start-up writes of the WASM module, then the reversion
\* of a failing precompile call
begin_tx_wasm(s, t, tr, is_precompile) ==
    [s |-> begin_tx_precompile_reversion(
               \* 838-839
               set_call_ctx_memory(
                   init_locals(
                       init_globals(init_memory(s, tr.global_memory, 1), tr.globals),
                       tr.num_locals, tr.num_locals, 0),
                   tr.global_memory),
               is_precompile),
     result |-> "Ok",
     \* 804-808
     gas_cost |-> begin_tx_gas_cost(t.gas, tr.struct_logs_gas, tr.gas)]

\* a faulty variant of begin_tx_frame: the precompile branch is tried
\* before the creation branch
begin_tx_frame_precompile_first(s, t, nonce_prev, is_precompile, is_empty_code_hash, callee_code_hash) ==
    IF is_precompile THEN s
    ELSE IF Last(s.calls).is_create
    THEN call_context_writes(
             push_op_reversible(s,
                 AccountOp(Last(s.calls).address, "Nonce", 1, 0)),
             Last(s.calls).call_id,
             callee_frame_fields(Last(s.calls),
                 get_contract_address(Last(s.calls).caller_address, nonce_prev),
                 Len(t.input), 1, Last(s.calls).code_hash))
    ELSE IF ~is_empty_code_hash
    THEN call_context_writes(s, Last(s.calls).call_id,
             callee_frame_fields(Last(s.calls), Last(s.calls).address,
                 Len(t.input), b2n(Last(s.calls).is_create), callee_code_hash))
    ELSE s

\* lines 725-802: the four branches on (is_create, is_precompile,
\* is_empty_code_hash)
begin_tx_frame(s, t, nonce_prev, is_precompile, is_empty_code_hash, callee_code_hash) ==
    IF Last(s.calls).is_create
    THEN call_context_writes(
             push_op_reversible(s,
                 AccountOp(Last(s.calls).address, "Nonce", 1, 0)),
             Last(s.calls).call_id,
             callee_frame_fields(Last(s.calls),
                 get_contract_address(Last(s.calls).caller_address, nonce_prev),
                 Len(t.input), 1, Last(s.calls).code_hash))
    ELSE IF is_precompile THEN s
    ELSE IF ~is_empty_code_hash
    THEN call_context_writes(s, Last(s.calls).call_id,
             callee_frame_fields(Last(s.calls), Last(s.calls).address,
                 Len(t.input), b2n(Last(s.calls).is_create), callee_code_hash))
    ELSE s

\* a faulty variant of begin_tx_transfer: the code hash is read once the
\* transfer is done
begin_tx_transfer_then_read(s, t, is_precompile, callee_exists, callee_code_hash) ==
    LET moved == transfer_with_fee(s,
                     Last(s.calls).caller_address, Last(s.calls).address,
                     callee_exists, Last(s.calls).is_create, Last(s.calls).value,
                     <<t.gas_price * t.gas + t.l1_fee>>)
    IN  IF ~is_precompile /\ ~Last(s.calls).is_create
        THEN account_read(moved, Last(s.calls).address, "CodeHash", callee_code_hash)
        ELSE moved

\* lines 686-705: the code hash read and the transfer
begin_tx_transfer(s, t, is_precompile, callee_exists, callee_code_hash) ==
    transfer_with_fee(
        IF ~is_precompile /\ ~Last(s.calls).is_create
        THEN account_read(s, Last(s.calls).address, "CodeHash", callee_code_hash)
        ELSE s,
        Last(s.calls).caller_address, Last(s.calls).address,
        callee_exists, Last(s.calls).is_create, Last(s.calls).value,
        <<t.gas_price * t.gas + t.l1_fee>>)

\* lines 658-685: the callee as the State Database holds it
begin_tx_callee(s, t, tr, nonce_prev) ==
    LET call == Last(s.calls)
        is_precompile == is_precompiled(call.address)
        callee_exists == ~is_empty(s.sdb, call.address) \/ is_precompile
        collision ==
            /\ t.is_create
            /\ \/ s.sdb.code_hash[call.address] \notin {CodeHash.zero, CodeHash.empty}
               \/ s.sdb.nonce[call.address] # 0
        callee_code_hash ==
            IF t.is_create \/ callee_exists THEN call.code_hash ELSE CodeHash.zero
        is_empty_code_hash ==
            IF t.is_create THEN FALSE
            ELSE IF callee_exists THEN call.code_hash = CodeHash.empty
            ELSE TRUE
    IN  IF collision THEN [s |-> s, result |-> "Panic", gas_cost |-> 0]
        ELSE begin_tx_wasm(
                 begin_tx_frame(
                     begin_tx_transfer(s, t, is_precompile, callee_exists,
                                       callee_code_hash),
                     t, nonce_prev, is_precompile, is_empty_code_hash,
                     callee_code_hash),
                 t, tr, is_precompile)

\* a faulty variant of begin_tx_nonce_write: the nonce is written back as it
\* was found
begin_tx_nonce_rewritten(s, t, tr, coinbase) ==
    begin_tx_callee(
        warm_up(
            account_write(s, Last(s.calls).caller_address, "Nonce",
                          s.sdb.nonce[Last(s.calls).caller_address],
                          s.sdb.nonce[Last(s.calls).caller_address]),
            t.id,
            <<Last(s.calls).caller_address, Last(s.calls).address>>),
        t, tr, s.sdb.nonce[Last(s.calls).caller_address])

\* a faulty variant of begin_tx_nonce_write: the nonce write is reversible
begin_tx_nonce_reversible(s, t, tr, coinbase) ==
    begin_tx_callee(
        warm_up(
            push_op_reversible(s,
                AccountOp(Last(s.calls).caller_address, "Nonce",
                          s.sdb.nonce[Last(s.calls).caller_address] + 1,
                          s.sdb.nonce[Last(s.calls).caller_address])),
            t.id,
            <<Last(s.calls).caller_address, Last(s.calls).address>>),
        t, tr, s.sdb.nonce[Last(s.calls).caller_address])

\* lines 608-639: the nonce write and the access-list writes
begin_tx_nonce_write(s, t, tr, coinbase) ==
    begin_tx_callee(
        warm_up(
            account_write(s, Last(s.calls).caller_address, "Nonce",
                          s.sdb.nonce[Last(s.calls).caller_address] + 1,
                          s.sdb.nonce[Last(s.calls).caller_address]),
            t.id,
            IF Shanghai
            THEN <<Last(s.calls).caller_address, Last(s.calls).address, coinbase>>
            ELSE <<Last(s.calls).caller_address, Last(s.calls).address>>),
        t, tr, s.sdb.nonce[Last(s.calls).caller_address])

\* lines 600-607: the nonce of the caller is compared and raised
begin_tx_nonce(s, t, tr, coinbase) ==
    IF ~(s.sdb.nonce[Last(s.calls).caller_address] <= t.nonce)
    THEN [s |-> s, result |-> "Panic", gas_cost |-> 0]
    ELSE begin_tx_nonce_write(
             [s EXCEPT !.sdb = raise_nonce(@, Last(s.calls).caller_address, t.nonce)],
             t, tr, coinbase)

gen_begin_tx_ops(s0, t, tr, coinbase) ==
    \* 585-598
    begin_tx_nonce(
        call_context_writes(s0, Last(s0.calls).call_id,
            << <<"TxId", t.id>>,
               <<"RwCounterEndOfReversion", 0>>,
               <<"IsPersistent", b2n(Last(s0.calls).is_persistent)>>,
               <<"IsSuccess", b2n(Last(s0.calls).is_success)>> >>),
        t, tr, coinbase)

(***************************************************************************)
(* gen_end_tx_ops                                                          *)
(*   t : the transaction; call : its root call (tx.calls()[0]);            *)
(*   gas_left, log_id : of the end-tx step; cumulative : block_ctx's       *)
(*   cumulative_gas_used.  The result is [s, result, cumulative].          *)
(***************************************************************************)
\* lines 873-882: the refund counter is read, value and previous value alike
end_tx_refund_read(s, t) ==
    LET refund == s.sdb.refund
    IN  push_op(s, "READ", TxRefundOp(t.id, refund, refund))

\* a faulty variant of end_tx_next_tx_id: the call id is obtained by
\* advancing the counter
end_tx_next_tx_id_inc_pre(s, t) ==
    IF ~t.is_last_tx
    THEN LET s1 == [s EXCEPT !.rwc = @ + 1]
         IN  call_context_write(s1, s1.rwc, "TxId", t.id + 1)
    ELSE s

\* a faulty variant of end_tx_next_tx_id: the call id is the rw-counter of
\* the write itself
end_tx_next_tx_id_own_rwc(s, t) ==
    IF ~t.is_last_tx
    THEN call_context_write(s, s.rwc, "TxId", t.id + 1)
    ELSE s

\* lines 968-975: the next transaction's id is written under the call id the
\* next root call will get, rwc + 1
end_tx_next_tx_id(s, t) ==
    IF ~t.is_last_tx
    THEN call_context_write(s, s.rwc + 1, "TxId", t.id + 1)
    ELSE s

\* a faulty variant of end_tx_cumulative_read: the previous receipt is
\* never read
end_tx_cumulative_read_skipped(s, t, cumulative) == s

\* lines 950-958: the cumulative gas of the previous receipt is read
end_tx_cumulative_read(s, t, cumulative) ==
    IF t.id > 1
    THEN tx_receipt_read(s, t.id - 1, "CumulativeGasUsed", cumulative)
    ELSE s

\* lines 934-975: the receipt, the cumulative gas and the next TxId
end_tx_receipt(s, t, call, gas_left, log_id, cumulative) ==
    [s |-> end_tx_next_tx_id(
               tx_receipt_write(
                   end_tx_cumulative_read(
                       tx_receipt_write(
                           tx_receipt_write(s, t.id, "PostStateOrStatus",
                                            b2n(call.is_persistent)),
                           t.id, "LogLength", log_id),
                       t, cumulative),
                   t.id, "CumulativeGasUsed", cumulative + (t.gas - gas_left)),
               t),
     result |-> "Ok",
     cumulative |-> cumulative + (t.gas - gas_left)]

\* a faulty variant of end_tx_coinbase: the reward is paid on the gas used
\* before the refund
end_tx_coinbase_unrefunded(s, t, call, gas_left, log_id, cumulative, coinbase, base_fee, effective_refund) ==
    IF coinbase \notin s.sdb.found
    THEN [s |-> s, result |-> "AccountNotFound", cumulative |-> cumulative]
    ELSE end_tx_receipt(
             account_write(s, coinbase, "Balance",
                           s.sdb.balance[coinbase]
                           + (t.gas_price - base_fee) * (t.gas - gas_left) + t.l1_fee,
                           s.sdb.balance[coinbase]),
             t, call, gas_left, log_id, cumulative)

\* a faulty variant of end_tx_coinbase: the reward is paid on the gas limit
end_tx_coinbase_on_gas_limit(s, t, call, gas_left, log_id, cumulative, coinbase, base_fee, effective_refund) ==
    IF coinbase \notin s.sdb.found
    THEN [s |-> s, result |-> "AccountNotFound", cumulative |-> cumulative]
    ELSE end_tx_receipt(
             account_write(s, coinbase, "Balance",
                           s.sdb.balance[coinbase]
                           + (t.gas_price - base_fee) * t.gas + t.l1_fee,
                           s.sdb.balance[coinbase]),
             t, call, gas_left, log_id, cumulative)

\* lines 901-932: the coinbase is credited with its reward
end_tx_coinbase(s, t, call, gas_left, log_id, cumulative, coinbase, base_fee, effective_refund) ==
    LET effective_tip == t.gas_price - base_fee
        gas_cost == t.gas - gas_left - effective_refund
        coinbase_reward == effective_tip * gas_cost + t.l1_fee
        coinbase_balance_prev == s.sdb.balance[coinbase]
        coinbase_balance == coinbase_balance_prev + coinbase_reward
    IN  IF coinbase \notin s.sdb.found
        THEN [s |-> s, result |-> "AccountNotFound", cumulative |-> cumulative]
        ELSE end_tx_receipt(
                 account_write(s, coinbase, "Balance",
                               coinbase_balance, coinbase_balance_prev),
                 t, call, gas_left, log_id, cumulative)

\* a faulty variant of effective_refund: the whole counter is refunded
effective_refund_uncapped(refund, gas, gas_left) == refund

\* lines 884-885: the refund is capped at a fraction of the gas used
effective_refund(refund, gas, gas_left) ==
    Min(refund, (gas - gas_left) \div MAX_REFUND_QUOTIENT_OF_GAS_USED)

\* a faulty variant of end_tx_caller: the caller gets the unused gas back
\* and no refund
end_tx_caller_unused_only(s, t, call, gas_left, log_id, cumulative, coinbase, base_fee, refund) ==
    IF call.caller_address \notin s.sdb.found
    THEN [s |-> s, result |-> "AccountNotFound", cumulative |-> cumulative]
    ELSE end_tx_coinbase(
             account_write(s, call.caller_address, "Balance",
                           s.sdb.balance[call.caller_address] + t.gas_price * gas_left,
                           s.sdb.balance[call.caller_address]),
             t, call, gas_left, log_id, cumulative, coinbase, base_fee,
             effective_refund(refund, t.gas, gas_left))

\* lines 886-899: the caller is credited with the gas left and the refund
end_tx_caller(s, t, call, gas_left, log_id, cumulative, coinbase, base_fee, refund) ==
    LET caller_balance_prev == s.sdb.balance[call.caller_address]
        caller_balance ==
            caller_balance_prev
            + t.gas_price * (gas_left + effective_refund(refund, t.gas, gas_left))
    IN  IF call.caller_address \notin s.sdb.found
        THEN [s |-> s, result |-> "AccountNotFound", cumulative |-> cumulative]
        ELSE end_tx_coinbase(
                 account_write(s, call.caller_address, "Balance",
                               caller_balance, caller_balance_prev),
                 t, call, gas_left, log_id, cumulative, coinbase, base_fee,
                 effective_refund(refund, t.gas, gas_left))

\* lines 873-882: the refund counter, as held before the read
end_tx_refund(s, t, call, gas_left, log_id, cumulative, coinbase, base_fee) ==
    end_tx_caller(end_tx_refund_read(s, t), t, call, gas_left, log_id,
                  cumulative, coinbase, base_fee, s.sdb.refund)

gen_end_tx_ops(s0, t, call, gas_left, log_id, cumulative, coinbase, base_fee) ==
    \* 860-871
    end_tx_refund(
        call_context_read(
            call_context_read(s0, call.call_id, "TxId", t.id),
            call.call_id, "IsPersistent", b2n(call.is_persistent)),
        t, call, gas_left, log_id, cumulative, coinbase, base_fee)

(***************************************************************************)
(* Opcode and error dispatch.                                              *)
(***************************************************************************)
CallOpcodes == {"CALL", "CALLCODE", "DELEGATECALL", "STATICCALL"}
CreateOpcodes == {"CREATE", "CREATE2"}

\* OpcodeId::is_call_or_create
is_call_or_create(op) == op \in CallOpcodes \cup CreateOpcodes

\* the ExecError values the dispatcher names, and Other for every value it
\* does not name
HandledErrors ==
    {"InvalidJump", "InvalidOpcode",
     "Depth(Call)", "Depth(Create)", "Depth(Create2)",
     "OutOfGas(Call)", "OutOfGas(Constant)", "OutOfGas(Create)", "OutOfGas(Log)",
     "OutOfGas(DynamicMemoryExpansion)", "OutOfGas(StaticMemoryExpansion)",
     "OutOfGas(Exp)", "OutOfGas(MemoryCopy)", "OutOfGas(Sha3)",
     "OutOfGas(SloadSstore)", "OutOfGas(AccountAccess)",
     "StackOverflow", "StackUnderflow",
     "CodeStoreOutOfGas", "MaxCodeSizeExceeded",
     "InsufficientBalance(Call)", "InsufficientBalance(Create)",
     "InsufficientBalance(Create2)",
     "PrecompileFailed", "WriteProtection", "ReturnDataOutOfBounds",
     "ContractAddressCollision(Create)", "ContractAddressCollision(Create2)",
     "NonceUintOverflow(Create)", "NonceUintOverflow(Create2)",
     "InvalidCreationCode"}
ExecErrors == HandledErrors \cup {"Other"}

\* fn_gen_associated_ops: the handler of an opcode
fn_gen_associated_ops(opcode_id) ==
    CASE opcode_id \in {"Unreachable", "End", "STOP"} -> "Stop"
      [] opcode_id \in {"I32Const", "I64Const"} -> "StackOnlyOpcode<0,1>"
      [] opcode_id \in {"I32Add", "I64Add", "I32Eq", "I64Eq"} -> "StackOnlyOpcode<2,1>"
      [] opcode_id \in {"I32Load", "I64Load", "I32Ctz", "I32Eqz", "I64Eqz"} ->
             "StackOnlyOpcode<1,1>"
      [] opcode_id \in {"SetGlobal", "GetGlobal"} -> "WasmGlobalOpcode"
      [] opcode_id \in {"SetLocal", "GetLocal", "TeeLocal"} -> "WasmLocalOpcode"
      [] opcode_id \in {"Call", "CallIndirect"} -> "WasmCallOpcode"
      [] opcode_id \in {"Return", "Br", "BrIf", "BrTable"} -> "WasmBreakOpcode"
      [] opcode_id = "Select" -> "StackOnlyOpcode<3,1>"
      [] opcode_id \in {"I32Store", "I64Store"} -> "StackOnlyOpcode<2,0>"
      [] opcode_id = "Drop" -> "StackOnlyOpcode<1,0>"
      [] opcode_id = "SHA3" -> "Sha3"
      [] opcode_id = "ADDRESS" -> "Address"
      [] opcode_id = "BALANCE" -> "Balance"
      [] opcode_id = "ORIGIN" -> "Origin"
      [] opcode_id = "CALLER" -> "Caller"
      [] opcode_id = "CALLVALUE" -> "Callvalue"
      [] opcode_id = "CALLDATASIZE" -> "Calldatasize"
      [] opcode_id = "CALLDATALOAD" -> "Calldataload"
      [] opcode_id = "CALLDATACOPY" -> "Calldatacopy"
      [] opcode_id = "GASPRICE" -> "GasPrice"
      [] opcode_id = "CODECOPY" -> "Codecopy"
      [] opcode_id = "CODESIZE" -> "Codesize"
      [] opcode_id = "EXTCODESIZE" -> "Extcodesize"
      [] opcode_id = "EXTCODECOPY" -> "Extcodecopy"
      [] opcode_id = "RETURNDATASIZE" -> "Returndatasize"
      [] opcode_id = "RETURNDATACOPY" -> "Returndatacopy"
      [] opcode_id = "EXTCODEHASH" -> "Extcodehash"
      [] opcode_id = "BLOCKHASH" -> "StackToMemoryOpcode<1,32>"
      [] opcode_id \in {"COINBASE", "TIMESTAMP", "DIFFICULTY", "GASLIMIT",
                        "CHAINID", "BASEFEE"} -> "StackToMemoryOpcode<0,0>"
      [] opcode_id = "NUMBER" -> "Number"
      [] opcode_id = "SELFBALANCE" -> "Selfbalance"
      [] opcode_id = "SLOAD" -> "Sload"
      [] opcode_id = "SSTORE" -> "Sstore"
      [] opcode_id \in {"PC", "MSIZE", "GAS"} -> "StackToMemoryOpcode<0,8>"
      [] opcode_id = "JUMPDEST" -> "Dummy"
      [] opcode_id = "LOG0" -> "Log<0>"
      [] opcode_id = "LOG1" -> "Log<1>"
      [] opcode_id = "LOG2" -> "Log<2>"
      [] opcode_id = "LOG3" -> "Log<3>"
      [] opcode_id = "LOG4" -> "Log<4>"
      [] opcode_id \in {"CALL", "CALLCODE"} -> "CallOpcode<true>"
      [] opcode_id \in {"DELEGATECALL", "STATICCALL"} -> "CallOpcode<false>"
      [] opcode_id \in {"RETURN", "REVERT"} -> "ReturnRevert"
      [] opcode_id = "SELFDESTRUCT" -> "DummySelfDestruct"
      [] OTHER -> "Dummy"

\* the opcode ids the model names: those of the arms of
\* fn_gen_associated_ops (abbreviated for the WASM arithmetic), and those
\* that have no arm of their own (the arms commented out at 162-205 and
\* 371-378 that no later arm replaces, and EVM opcodes the table omits)
ArmOpcodes ==
    {"Unreachable", "End", "STOP", "I32Const", "I64Const", "I32Add", "I64Add",
     "I32Eq", "I64Eq", "I32Load", "I64Load", "I32Ctz", "I32Eqz", "I64Eqz",
     "SetGlobal", "GetGlobal", "SetLocal", "GetLocal", "TeeLocal", "Call",
     "CallIndirect", "Return", "Br", "BrIf", "BrTable", "Select", "I32Store",
     "I64Store", "Drop", "SHA3", "ADDRESS", "BALANCE", "ORIGIN", "CALLER",
     "CALLVALUE", "CALLDATASIZE", "CALLDATALOAD", "CALLDATACOPY", "GASPRICE",
     "CODECOPY", "CODESIZE", "EXTCODESIZE", "EXTCODECOPY", "RETURNDATASIZE",
     "RETURNDATACOPY", "EXTCODEHASH", "BLOCKHASH", "COINBASE", "TIMESTAMP",
     "NUMBER", "DIFFICULTY", "GASLIMIT", "CHAINID", "SELFBALANCE", "BASEFEE",
     "SLOAD", "SSTORE", "PC", "MSIZE", "GAS", "JUMPDEST", "LOG0", "LOG1",
     "LOG2", "LOG3", "LOG4", "CALL", "CALLCODE", "DELEGATECALL", "STATICCALL",
     "RETURN", "REVERT", "SELFDESTRUCT"}
NoArmOpcodes ==
    {"Nop", "Block", "Loop", "If", "Else", "CurrentMemory", "GrowMemory",
     "CREATE", "CREATE2", "JUMP", "JUMPI", "MLOAD", "MSTORE", "INVALID"}
OpcodeIds == ArmOpcodes \cup NoArmOpcodes

\* the handlers the arms of fn_gen_associated_ops name
OpcodeHandlers ==
    {"Stop", "StackOnlyOpcode<0,1>", "StackOnlyOpcode<2,1>", "StackOnlyOpcode<1,1>",
     "StackOnlyOpcode<3,1>", "StackOnlyOpcode<2,0>", "StackOnlyOpcode<1,0>",
     "WasmGlobalOpcode", "WasmLocalOpcode", "WasmCallOpcode", "WasmBreakOpcode",
     "Sha3", "Address", "Balance", "Origin", "Caller", "Callvalue",
     "Calldatasize", "Calldataload", "Calldatacopy", "GasPrice", "Codecopy",
     "Codesize", "Extcodesize", "Extcodecopy", "Returndatasize",
     "Returndatacopy", "Extcodehash", "StackToMemoryOpcode<1,32>",
     "StackToMemoryOpcode<0,0>", "StackToMemoryOpcode<0,8>", "Number",
     "Selfbalance", "Sload", "Sstore", "Log<0>", "Log<1>", "Log<2>", "Log<3>",
     "Log<4>", "CallOpcode<true>", "CallOpcode<false>", "ReturnRevert",
     "DummySelfDestruct", "Dummy"}

\* a faulty variant of depth_call_handler: the two call shapes swapped
depth_call_handler_swapped(op) ==
    IF op \in {"CALL", "CALLCODE"} THEN "CallOpcode<false>"
    ELSE IF op \in {"DELEGATECALL", "STATICCALL"} THEN "CallOpcode<true>"
    ELSE "unreachable"

\* lines 394-400: the handler of a Depth(Call) error, by opcode
depth_call_handler(op) ==
    IF op \in {"CALL", "CALLCODE"} THEN "CallOpcode<true>"
    ELSE IF op \in {"DELEGATECALL", "STATICCALL"} THEN "CallOpcode<false>"
    ELSE "unreachable"

\* fn_gen_error_state_associated_ops: the handler registered for an error,
\* "None" when there is none, "unreachable" where the code says so
fn_gen_error_state_associated_ops(op, error) ==
    CASE error = "InvalidJump" -> "InvalidJump"
      [] error = "InvalidOpcode" -> "StackOnlyOpcode<0,0>"
      [] error = "Depth(Call)" -> depth_call_handler(op)
      [] error = "Depth(Create)" -> "Create<false>"
      [] error = "Depth(Create2)" -> "Create<true>"
      [] error = "OutOfGas(Call)" -> "OOGCall"
      [] error = "OutOfGas(Constant)" -> "StackOnlyOpcode<0,0,true>"
      [] error = "OutOfGas(Create)" -> "StackOnlyOpcode<4,0,true>"
      [] error = "OutOfGas(Log)" -> "ErrorOOGLog"
      [] error = "OutOfGas(DynamicMemoryExpansion)" -> "OOGDynamicMemory"
      [] error = "OutOfGas(StaticMemoryExpansion)" -> "StackOnlyOpcode<1,0,true>"
      [] error = "OutOfGas(Exp)" -> "StackOnlyOpcode<2,0,true>"
      [] error = "OutOfGas(MemoryCopy)" -> "OOGMemoryCopy"
      [] error = "OutOfGas(Sha3)" -> "StackOnlyOpcode<2,0,true>"
      [] error = "OutOfGas(SloadSstore)" -> "OOGSloadSstore"
      [] error = "OutOfGas(AccountAccess)" -> "ErrorOOGAccountAccess"
      [] error = "StackOverflow" -> "StackOnlyOpcode<0,0,true>"
      [] error = "StackUnderflow" -> "StackOnlyOpcode<0,0,true>"
      [] error = "CodeStoreOutOfGas" -> "ErrorCodeStore"
      [] error = "MaxCodeSizeExceeded" -> "ErrorCodeStore"
      [] error = "InsufficientBalance(Call)" -> "CallOpcode<true>"
      [] error = "InsufficientBalance(Create)" -> "Create<false>"
      [] error = "InsufficientBalance(Create2)" -> "Create<true>"
      [] error = "PrecompileFailed" -> "PrecompileFailed"
      [] error = "WriteProtection" -> "ErrorWriteProtection"
      [] error = "ReturnDataOutOfBounds" -> "ErrorReturnDataOutOfBound"
      [] error = "ContractAddressCollision(Create)" -> "Create<false>"
      [] error = "ContractAddressCollision(Create2)" -> "Create<true>"
      [] error = "NonceUintOverflow(Create)" -> "Create<false>"
      [] error = "NonceUintOverflow(Create2)" -> "Create<true>"
      [] error = "InvalidCreationCode" -> "ErrorCreationCode"
      [] OTHER -> "None"

(***************************************************************************)
(* Opcode handlers.  A handler returns [s, result, steps, pushed]: the     *)
(* state after it, "Ok" or the error it returns, the ExecSteps it returns  *)
(* (each with its error tag) and the depth of the frame it pushed (0 when  *)
(* it pushed none).                                                        *)
(***************************************************************************)
ExecStep(error) == [error |-> error]

Handled(s, result, steps, pushed) ==
    [s |-> s, result |-> result, steps |-> steps, pushed |-> pushed]

\* a faulty variant of Dummy: the step reads the top of the stack
dummy_reads_stack(s) ==
    Handled(stack_read(s, 1023, 0), "Ok", <<ExecStep("None")>>, 0)

\* Dummy::gen_associated_ops
Dummy(s) == Handled(s, "Ok", <<ExecStep("None")>>, 0)

\* StateDB::destruct_account: the account's code and storage are removed
destruct_account(db, a) ==
    [db EXCEPT !.balance[a] = 0, !.nonce[a] = 0, !.code_hash[a] = CodeHash.zero,
               !.storage[a] = 0, !.destructed = @ \cup {a}]

\* a faulty variant of selfdestruct_receiver_credit: the receiver is
\* credited whoever it is
selfdestruct_receiver_credit_always(s, sender, receiver, receiver_account, value) ==
    push_op_reversible(s,
        AccountOp(receiver, "Balance",
                  receiver_account.balance + value,
                  receiver_account.balance))

\* a faulty variant of selfdestruct_receiver_credit: the receiver's balance
\* is replaced by the sender's
selfdestruct_receiver_credit_replaces(s, sender, receiver, receiver_account, value) ==
    IF receiver # sender
    THEN push_op_reversible(s,
             AccountOp(receiver, "Balance", value, receiver_account.balance))
    ELSE s

\* lines 1058-1068: the receiver is credited with the sender's balance
selfdestruct_receiver_credit(s, sender, receiver, receiver_account, value) ==
    IF receiver # sender
    THEN push_op_reversible(s,
             AccountOp(receiver, "Balance",
                       receiver_account.balance + value,
                       receiver_account.balance))
    ELSE s

\* a faulty variant of selfdestruct_destruct: the sender is destructed
\* whatever the call
selfdestruct_destruct_always(s, sender) ==
    [s EXCEPT !.sdb = destruct_account(@, sender)]

\* lines 1070-1072: the sender is destructed when the call is persistent
selfdestruct_destruct(s, sender) ==
    IF Last(s.calls).is_persistent
    THEN [s EXCEPT !.sdb = destruct_account(@, sender)]
    ELSE s

\* lines 1011-1074: the accounts are looked up, the sender is zeroed, the
\* receiver credited, and the call returns
selfdestruct_accounts(s, receiver) ==
    LET sender == Last(s.calls).address
        receiver_account == [balance |-> s.sdb.balance[receiver]]
        sender_account == [balance |-> s.sdb.balance[sender],
                           nonce |-> s.sdb.nonce[sender],
                           code_hash |-> account_code_hash(s.sdb, sender)]
        value == sender_account.balance
    IN  IF receiver \notin s.sdb.found
        THEN Handled(s, "AccountNotFound", <<>>, 0)
        ELSE IF sender \notin s.sdb.found
        THEN Handled(s, "AccountNotFound", <<>>, 0)
        ELSE Handled(
                 handle_return(
                     selfdestruct_destruct(
                         selfdestruct_receiver_credit(
                             \* 1031-1057
                             push_op_reversible(
                                 push_op_reversible(
                                     push_op_reversible(s,
                                         AccountOp(sender, "Balance", 0, value)),
                                     AccountOp(sender, "Nonce", 0,
                                               sender_account.nonce)),
                                 AccountOp(sender, "CodeHash", 0,
                                           sender_account.code_hash)),
                             sender, receiver, receiver_account, value),
                         sender),
                     FALSE),
                 "Ok", <<ExecStep("None")>>, 0)

\* dummy_gen_selfdestruct_ops
dummy_gen_selfdestruct_ops(s, tx_id, receiver) ==
    \* 1000-1009
    selfdestruct_accounts(
        push_op_reversible(s,
            TxAccessListAccountOp(tx_id, receiver, 1, b2n(receiver \in s.sdb.access))),
        receiver)

\* Sstore: the slot of the running contract is written and the refund
\* counter grows when the write clears the slot; both are reversible
sstore_refund(s, tx_id, value, value_prev) ==
    Handled(
        push_op_reversible(s,
            TxRefundOp(tx_id,
                       IF value_prev # 0 /\ value = 0
                       THEN s.sdb.refund + GasCost.SSTORE_CLEARS_SCHEDULE
                       ELSE s.sdb.refund,
                       s.sdb.refund)),
        "Ok", <<ExecStep("None")>>, 0)

Sstore(s, tx_id, value) ==
    sstore_refund(
        push_op_reversible(s,
            StorageOp(Last(s.calls).address, "slot", value,
                      s.sdb.storage[Last(s.calls).address])),
        tx_id, value, s.sdb.storage[Last(s.calls).address])

(***************************************************************************)
(* The handlers that copy a result into memory.  Of the trace they take    *)
(*   c.stack : geth_steps[0].stack, the top last                           *)
(*   c.result : geth_steps[1].memory[0].0, the result buffer               *)
(*   c.word : what read_u256 / read_u64 find at the destination in         *)
(*            geth_steps[1].global_memory                                  *)
(* A step of these opcodes has its destination on the stack and is         *)
(* followed by another trace step.                                         *)
(***************************************************************************)
CALL_VALUE_BYTE_LENGTH == 32
STACK_TO_MEMORY_TYPE_DEFAULT == 0
STACK_TO_MEMORY_TYPE_U256 == 32
STACK_TO_MEMORY_TYPE_U64 == 8

\* U256::from_big_endian: the first byte is the most significant
RECURSIVE from_big_endian(_)
from_big_endian(bytes) ==
    IF bytes = <<>> THEN 0
    ELSE from_big_endian(Front(bytes)) * 256 + Last(bytes)

\* ToBigEndian::to_be_bytes, n bytes wide
RECURSIVE to_be_bytes(_, _)
to_be_bytes(v, n) ==
    IF n = 0 THEN <<>> ELSE Append(to_be_bytes(v \div 256, n - 1), v % 256)

\* Stack::nth_last: the k-th word from the top
nth_last(stack, k) == stack[Len(stack) - k]

\* Iterator::skip
skip(bytes, n) == SubSeq(bytes, n + 1, Len(bytes))

\* the loop that copies a result to memory, one memory_write for every
\* byte: byte i goes to offset + i with the next rwc (a memory write
\* leaves the State Database alone)
copy_to_memory(s, offset_addr, bytes) ==
    [s EXCEPT
       !.container = @ \o
           [i \in 1..Len(bytes) |->
               [tag |-> "Memory", id |-> Last(s.calls).call_id,
                addr |-> offset_addr + i - 1, field |-> "",
                value |-> bytes[i], value_prev |-> bytes[i],
                rwc |-> s.rwc + i - 1, rw |-> "WRITE", reversion |-> FALSE]],
       !.rwc = @ + Len(bytes)]

\* a faulty variant of callvalue_copy: the result is copied last byte
\* first
callvalue_copy_reversed(s, c, value) ==
    Handled(
        set_call_ctx_memory(
            copy_to_memory(s, nth_last(c.stack, 0),
                           [i \in 1..CALL_VALUE_BYTE_LENGTH |->
                               value[CALL_VALUE_BYTE_LENGTH + 1 - i]]),
            c.next_global_memory),
        "Ok", <<ExecStep("None")>>, 0)

\* callvalue.rs 38-47: the first 32 bytes of the result are copied
callvalue_copy(s, c, value) ==
    Handled(
        set_call_ctx_memory(
            copy_to_memory(s, nth_last(c.stack, 0),
                           SubSeq(value, 1, CALL_VALUE_BYTE_LENGTH)),
            c.next_global_memory),
        "Ok", <<ExecStep("None")>>, 0)

\* a faulty variant of Callvalue: the value is read from the stack
\* before the call context
callvalue_stack_first(s, c) ==
    callvalue_copy(
        call_context_read(
            stack_read(s, nth_last_filled(Len(c.stack), 0), nth_last(c.stack, 0)),
            Last(s.calls).call_id, "Value", from_big_endian(c.result)),
        c, c.result)

\* Callvalue::gen_associated_ops, callvalue.rs 22-37
Callvalue(s, c) ==
    callvalue_copy(
        stack_read(
            call_context_read(s, Last(s.calls).call_id, "Value",
                              from_big_endian(c.result)),
            nth_last_filled(Len(c.stack), 0), nth_last(c.stack, 0)),
        c, c.result)

\* stacktomemoryop.rs 39-45: the operands are read from the top down
RECURSIVE stack_to_memory_pops(_, _, _, _)
stack_to_memory_pops(s, c, N_POP, i) ==
    IF i >= N_POP THEN s
    ELSE stack_to_memory_pops(
             stack_read(s, nth_last_filled(Len(c.stack), i + 1),
                        nth_last(c.stack, i + 1)),
             c, N_POP, i + 1)

\* a faulty variant of stack_to_memory_value: the fixed widths keep the
\* leading bytes of the word
stack_to_memory_value_leading(c, N_BYTES) ==
    IF N_BYTES = STACK_TO_MEMORY_TYPE_DEFAULT THEN c.result
    ELSE SubSeq(to_be_bytes(c.word, 32), 1, N_BYTES)

\* stacktomemoryop.rs 48-61: the bytes to copy
stack_to_memory_value(c, N_BYTES) ==
    IF N_BYTES = STACK_TO_MEMORY_TYPE_DEFAULT THEN skip(c.result, 0)
    ELSE skip(to_be_bytes(c.word, 32), 32 - N_BYTES)

\* StackToMemoryOpcode::gen_associated_ops
StackToMemoryOpcode(s, c, N_POP, N_BYTES) ==
    Handled(
        set_call_ctx_memory(
            copy_to_memory(
                stack_to_memory_pops(
                    \* 34-35
                    stack_read(s, nth_last_filled(Len(c.stack), 0),
                               nth_last(c.stack, 0)),
                    c, N_POP, 0),
                nth_last(c.stack, 0), stack_to_memory_value(c, N_BYTES)),
            c.next_global_memory),
        "Ok", <<ExecStep("None")>>, 0)

\* Stop, ReturnRevert: the call ends and control returns to the caller
Stop(s) == Handled(handle_return(s, TRUE), "Ok", <<ExecStep("None")>>, 0)

\* the errors raised by the pre-checks of a call or create: the callee
\* never runs and the caller goes on
PreCheckErrors ==
    {"Depth(Call)", "Depth(Create)", "Depth(Create2)",
     "InsufficientBalance(Call)", "InsufficientBalance(Create)",
     "InsufficientBalance(Create2)",
     "ContractAddressCollision(Create)", "ContractAddressCollision(Create2)",
     "NonceUintOverflow(Create)", "NonceUintOverflow(Create2)",
     "PrecompileFailed"}

\* CallOpcode: a call that enters the callee parses and pushes its frame
\* and moves the value; a call that fails its pre-checks pushes no frame
call_transfer(s) ==
    Handled(
        transfer_with_fee(s, Last(s.calls).caller_address, Last(s.calls).address,
            ~is_empty(s.sdb, Last(s.calls).address), FALSE, Last(s.calls).value,
            <<>>),
        "Ok", <<ExecStep("None")>>, Last(s.calls).depth)

CallOpcode(s, error, c) ==
    IF error \in PreCheckErrors
    THEN Handled(s, "Ok", <<ExecStep(c.tag)>>, 0)
    ELSE call_transfer(
             push_call(s, parse_call(s, c.address, c.value, FALSE, c.is_static,
                                     c.is_success)))

\* the handlers of the errors that end the current call: one step, then
\* the call returns and is reverted
ErrorHandler(s, error, c) ==
    IF error \in PreCheckErrors
    THEN Handled(s, "Ok", <<ExecStep(c.tag)>>, 0)
    ELSE Handled(handle_return(s, TRUE), "Ok", <<ExecStep(c.tag)>>, 0)

\* the handler named fn, run on the current step; c holds what the trace
\* and the handler decide (receiver, callee, value, success of the callee,
\* the handler's own error tag, whether it returns an error)
RunHandler(fn, s, tx_id, error, c) ==
    IF c.fault = "handler" THEN Handled(s, "HandlerError", <<>>, 0)
    ELSE IF fn = "Dummy" THEN Dummy(s)
    ELSE IF fn = "DummySelfDestruct" THEN dummy_gen_selfdestruct_ops(s, tx_id, c.receiver)
    ELSE IF fn \in {"Stop", "ReturnRevert"} THEN Stop(s)
    ELSE IF fn = "Sstore" THEN Sstore(s, tx_id, c.value)
    ELSE IF fn \in {"CallOpcode<true>", "CallOpcode<false>"} THEN CallOpcode(s, error, c)
    ELSE IF fn = "Callvalue" THEN Callvalue(s, c)
    ELSE IF fn = "StackToMemoryOpcode<1,32>"
    THEN StackToMemoryOpcode(s, c, 1, STACK_TO_MEMORY_TYPE_U256)
    ELSE IF fn = "StackToMemoryOpcode<0,8>"
    THEN StackToMemoryOpcode(s, c, 0, STACK_TO_MEMORY_TYPE_U64)
    ELSE IF fn = "StackToMemoryOpcode<0,0>"
    THEN StackToMemoryOpcode(s, c, 0, STACK_TO_MEMORY_TYPE_DEFAULT)
    ELSE ErrorHandler(s, error, c)

(***************************************************************************)
(* gen_associated_ops: the top-level per-step function.                    *)
(*   ge : what get_step_err returns, [raised, error]                       *)
(* The result adds path, handler and need_restore to a handler's result.   *)
(***************************************************************************)
StepResult(r, path, handler, need_restore) ==
    [s |-> r.s, result |-> r.result, steps |-> r.steps, pushed |-> r.pushed,
     path |-> path, handler |-> handler, need_restore |-> need_restore,
     mem_check |-> "none"]

\* a faulty variant of handled_error: the handler's steps are returned as
\* the handler tagged them
handled_error_keeps_tag(fn_gen_error_ops, s, tx_id, exec_error, c) ==
    StepResult(RunHandler(fn_gen_error_ops, s, tx_id, exec_error, c),
               "handled", fn_gen_error_ops, FALSE)

\* lines 539-542: the error the handler tagged its first step with is
\* compared under debug assertions and then overwritten
handled_error_steps(r, fn_gen_error_ops, exec_error, c) ==
    IF r.result # "Ok"
    THEN StepResult(r, "handled", fn_gen_error_ops, FALSE)
    ELSE IF /\ r.steps[1].error # "None"
            /\ r.steps[1].error # exec_error
            /\ c.debug_assertions
    THEN StepResult(Handled(r.s, "Panic", <<>>, r.pushed),
                    "handled", fn_gen_error_ops, FALSE)
    ELSE StepResult([r EXCEPT !.steps[1].error = exec_error],
                    "handled", fn_gen_error_ops, FALSE)

\* lines 537-543: the registered handler runs and its first step gets the
\* classified error
handled_error(fn_gen_error_ops, s, tx_id, exec_error, c) ==
    handled_error_steps(RunHandler(fn_gen_error_ops, s, tx_id, exec_error, c),
                        fn_gen_error_ops, exec_error, c)

\* a faulty variant of unhandled_error: no frame is ever parsed
unhandled_error_never_parses(opcode_id, s, exec_error, c) ==
    IF c.fault = "handle_return"
    THEN StepResult(Handled(s, "HandleReturnError", <<>>, 0),
                    "unhandled", "None", TRUE)
    ELSE StepResult(Handled(handle_return(s, TRUE), "Ok",
                            <<ExecStep(exec_error)>>, 0),
                    "unhandled", "None", TRUE)

\* line 559: handle_return on the state the parse left
unhandled_return(s, parsed, need_restore, exec_error, c) ==
    LET pushed == IF parsed THEN Last(s.calls).depth ELSE 0
    IN  IF c.fault = "handle_return"
        THEN StepResult(Handled(s, "HandleReturnError", <<>>, pushed),
                        "unhandled", "None", need_restore)
        ELSE StepResult(Handled(handle_return(s, need_restore), "Ok",
                                <<ExecStep(exec_error)>>, pushed),
                        "unhandled", "None", need_restore)

\* lines 544-561: no handler is registered; a call or create that is not
\* out of gas on create is parsed and pushed, then handle_return runs
unhandled_error(opcode_id, s, exec_error, c) ==
    LET parse == /\ is_call_or_create(opcode_id)
                 /\ exec_error # "OutOfGas(Create)"
        need_restore == ~parse
    IN  IF parse /\ c.fault = "parse_call"
        THEN StepResult(Handled(s, "ParseCallError", <<>>, 0),
                        "unhandled", "None", need_restore)
        ELSE IF parse
        THEN unhandled_return(
                 push_call(s, parse_call(s, c.address, c.value,
                                         opcode_id \in CreateOpcodes, FALSE, FALSE)),
                 TRUE, need_restore, exec_error, c)
        ELSE unhandled_return(s, FALSE, need_restore, exec_error, c)

\* a faulty variant of copy_global_memory: the memory of the call context
\* is left as the handler left it
copy_global_memory_skipped(r, c) == r

\* lines 566-574: the global memory of the next trace step (of this one
\* when it is the last) becomes the memory of the call context
copy_global_memory(r, c) ==
    IF r.result = "Ok" /\ r.s.calls # <<>>
    THEN [r EXCEPT !.s = set_call_ctx_memory(
                             r.s, IF c.is_last THEN c.global_memory
                                  ELSE c.next_global_memory)]
    ELSE r

\* lines 517-575: the step is classified and handled
gen_step_ops(opcode_id, s, tx_id, ge, c) ==
    IF c.fault = "new_step"
    THEN \* 519
         StepResult(Handled(s, "NewStepError", <<>>, 0), "none", "None", FALSE)
    ELSE IF ge.raised
    THEN \* 525: unwrap
         StepResult(Handled(s, "Panic", <<>>, 0), "none", "None", FALSE)
    ELSE IF ge.error # "None"
    THEN LET exec_error == ge.error
             fn_gen_error_ops == fn_gen_error_state_associated_ops(opcode_id, exec_error)
         IN  IF fn_gen_error_ops = "unreachable"
             THEN StepResult(Handled(s, "Panic", <<>>, 0), "none", "None", FALSE)
             ELSE IF fn_gen_error_ops # "None"
             THEN handled_error(fn_gen_error_ops, s, tx_id, exec_error, c)
             ELSE unhandled_error(opcode_id, s, exec_error, c)
    ELSE \* 563-575
         copy_global_memory(
             StepResult(RunHandler(fn_gen_associated_ops(opcode_id), s, tx_id,
                                   "None", c),
                        "normal", fn_gen_associated_ops(opcode_id), FALSE),
             c)

\* line 481: 0 is no check, 1 is check, log and fix, 2 is check and panic
check_level(CHECK_MEM_STRICT) == IF CHECK_MEM_STRICT THEN 2 ELSE 0

\* lines 479-515: with a trace that records memory, the memory of the call
\* context is compared with the global memory of the trace step
gen_associated_ops(opcode_id, s, tx_id, ge, c) ==
    IF c.memory_enabled /\ check_level(c.CHECK_MEM_STRICT) >= 1
    THEN IF Last(s.calls).memory # c.global_memory
         THEN IF check_level(c.CHECK_MEM_STRICT) >= 2
              THEN \* 510
                   [StepResult(Handled(s, "Panic", <<>>, 0), "none", "None", FALSE)
                       EXCEPT !.mem_check = "logged"]
              ELSE \* 512
                   [gen_step_ops(opcode_id,
                                 set_call_ctx_memory(s, c.global_memory),
                                 tx_id, ge, c)
                       EXCEPT !.mem_check = "logged"]
         ELSE [gen_step_ops(opcode_id, s, tx_id, ge, c)
                  EXCEPT !.mem_check = "equal"]
    ELSE gen_step_ops(opcode_id, s, tx_id, ge, c)

(***************************************************************************)
(* The block-processing loop: for every transaction new_tx and             *)
(* gen_begin_tx_ops, then gen_associated_ops for every trace step, then    *)
(* gen_end_tx_ops.                                                         *)
(***************************************************************************)
NoCall == [call_id |-> 0, caller_address |-> 0, address |-> 0, depth |-> 0,
           is_root |-> FALSE, is_create |-> FALSE, is_static |-> FALSE,
           is_success |-> FALSE, is_persistent |-> FALSE, value |-> 0,
           code_hash |-> 0, memory |-> <<>>]

NoTx == [id |-> 0, is_create |-> FALSE, nonce |-> 0, input |-> <<>>,
         gas |-> 0, gas_price |-> 0, l1_fee |-> 0, is_last_tx |-> FALSE,
         root |-> NoCall, gas_left |-> 0, has_steps |-> FALSE,
         snap |-> AccountView(InitSdb),
         trace |-> [struct_logs_gas |-> <<>>, gas |-> 0]]

\* what the last top-level function did: its name and result, the length
\* of the container before it, the reversion it ran, and for a trace step
\* the opcode, the classified error and the route taken
NoLast == [fn |-> "none", result |-> "Ok", from |-> 0, gas_cost |-> 0,
           undone |-> NotUndone, op |-> "", error |-> "None", raised |-> FALSE,
           path |-> "none", handler |-> "None", tag |-> "None", steps |-> <<>>,
           pushed |-> 0, need_restore |-> FALSE, depth |-> 0, frames |-> 0,
           fault |-> "none", gas_left |-> 0, call |-> NoCall, receiver |-> 0,
           mem_check |-> "none", choice |-> <<>>]

\* the transactions a block may hold: the callee, the value, whether the
\* trace reports failure, how far the State Database's nonce of the caller
\* lags behind the transaction's, and the WASM start-up data of the trace
NoWasm == [global_memory |-> <<>>, globals |-> <<>>, num_locals |-> 0]
SomeWasm == [global_memory |-> <<7, 0>>,
             globals |-> <<[index |-> 0, value |-> 9]>>, num_locals |-> 2]

TxInput(address, is_create, value, failed, input, lag, wasm) ==
    [address |-> address, is_create |-> is_create, value |-> value,
     failed |-> failed, input |-> input, lag |-> lag, wasm |-> wasm]

TxInputs ==
    {TxInput(Accounts.contract, FALSE, 0, FALSE, <<0, 1>>, 0, SomeWasm),
     TxInput(Accounts.contract, FALSE, 3, FALSE, <<>>, 0, NoWasm),
     TxInput(Accounts.contract, FALSE, 3, TRUE, <<>>, 0, NoWasm),
     TxInput(Accounts.eoa, FALSE, 0, FALSE, <<>>, 1, NoWasm),
     TxInput(Accounts.fresh, FALSE, 0, FALSE, <<>>, 0, NoWasm),
     TxInput(Accounts.fresh, FALSE, 5, FALSE, <<>>, 0, NoWasm),
     TxInput(Accounts.precompile, FALSE, 5, FALSE, <<1>>, 0, NoWasm),
     TxInput(Accounts.precompile, FALSE, 5, TRUE, <<1>>, 0, NoWasm),
     TxInput(Accounts.fresh, TRUE, 0, FALSE, <<1, 0>>, 0, SomeWasm),
     TxInput(Accounts.fresh, TRUE, 0, TRUE, <<1, 0>>, 0, NoWasm),
     \* the code does not exclude a contract address in the precompile range
     TxInput(Accounts.precompile, TRUE, 0, FALSE, <<>>, 0, NoWasm)}

Coinbases == {Accounts.eoa, Accounts.fresh}

\* the senders of the block's transactions
Callers == {Accounts.eoa}

\* the accounts the block touches are loaded into the State Database
\* before the first transaction; one the chain does not hold is loaded as
\* a default account
Loaded == {{}, {Accounts.fresh}}

Init ==
    /\ circuit = NoCircuit
    /\ container = <<>>
    /\ rwc = 1
    /\ sdb \in {[InitSdb EXCEPT !.found = @ \cup l] : l \in Loaded}
    /\ calls = <<>>
    /\ groups = <<>>
    /\ tx = NoTx
    /\ block_ctx \in {[cumulative_gas_used |-> 0, txs |-> 0, steps |-> 0,
                       coinbase |-> c, base_fee |-> b,
                       CHECK_MEM_STRICT |-> FALSE] :
                      c \in Coinbases, b \in BaseFees}
    /\ pc = "idle"
    /\ last = NoLast

Commit(r, nextpc) ==
    /\ container' = r.s.container
    /\ rwc' = r.s.rwc
    /\ sdb' = r.s.sdb
    /\ calls' = r.s.calls
    /\ groups' = r.s.groups
    /\ pc' = IF r.result = "Ok" THEN nextpc ELSE "aborted"

\* new_tx: the transaction and its root call, whose id is the current rwc;
\* the State Database starts the transaction with an empty access list and
\* a zero refund counter
new_tx(s, i, caller, is_last) ==
    LET has_code == s.sdb.code_hash[i.address] = CodeHash.code
        root == [call_id |-> s.rwc,
                 caller_address |-> caller,
                 address |-> i.address,
                 depth |-> 1,
                 is_root |-> TRUE,
                 is_create |-> i.is_create,
                 is_static |-> FALSE,
                 is_success |-> ~i.failed,
                 is_persistent |-> ~i.failed,
                 value |-> i.value,
                 code_hash |-> IF i.is_create THEN CodeHash.init
                               ELSE account_code_hash(s.sdb, i.address),
                 memory |-> <<>>]
    IN  [s |-> push_call([s EXCEPT !.sdb.access = {}, !.sdb.refund = 0,
                                   !.calls = <<>>, !.groups = <<>>], root),
         t |-> [id |-> block_ctx.txs + 1,
                is_create |-> i.is_create,
                nonce |-> s.sdb.nonce[caller] + i.lag,
                input |-> i.input,
                gas |-> Block.gas,
                gas_price |-> Block.gas_price,
                l1_fee |-> Block.l1_fee,
                is_last_tx |-> is_last,
                root |-> root,
                gas_left |-> Block.gas,
                has_steps |-> i.is_create \/ has_code,
                snap |-> AccountView(s.sdb),
                trace |-> NoTx.trace]]

\* the trace of a transaction: the gas its first step starts with (the gas
\* limit less the intrinsic gas the interpreter charged), the gas the
\* transaction used (read for a trace without steps only: the intrinsic gas
\* of a plain transfer, to which a precompile adds the cost of its run, or
\* all the gas when it fails), and the start-up data of its WASM module
begin_tx_trace(i, t) ==
    LET intrinsic == (IF i.is_create THEN GasCost.CREATION_TX ELSE GasCost.TX)
                     + call_data_gas_cost(i.input)
    IN  [struct_logs_gas |-> IF t.has_steps THEN <<t.gas - intrinsic>> ELSE <<>>,
         gas |-> IF t.has_steps \/ ~is_precompiled(i.address) THEN intrinsic
                 ELSE IF i.failed THEN t.gas
                 ELSE intrinsic + StepGas.precompile,
         global_memory |-> i.wasm.global_memory,
         globals |-> i.wasm.globals,
         num_locals |-> i.wasm.num_locals]

BeginTx ==
    /\ UNCHANGED circuit
    /\ pc = "idle"
    /\ block_ctx.txs < MaxTxs
    /\ \E i \in TxInputs :
       \E caller \in Callers :
       \E n \in {new_tx(State, i, caller, block_ctx.txs + 1 = MaxTxs)} :
       \E r \in {gen_begin_tx_ops(n.s, n.t, begin_tx_trace(i, n.t),
                                  block_ctx.coinbase)} :
         \* what the reference interpreter can report
         /\ i.failed => (n.t.has_steps \/ is_precompiled(i.address))
         /\ ~n.t.has_steps => i.wasm = NoWasm
         /\ Commit(r, IF n.t.has_steps THEN "exec" ELSE "end")
         /\ tx' = [n.t EXCEPT
                    !.gas_left = n.t.gas - r.gas_cost,
                    !.trace = [struct_logs_gas |-> begin_tx_trace(i, n.t).struct_logs_gas,
                               gas |-> begin_tx_trace(i, n.t).gas],
                    \* the accounts as the root call found them, once
                    \* the fee was charged
                    !.snap = IF r.s.undone.valid THEN r.s.undone.snap
                             ELSE IF r.s.groups # <<>> THEN r.s.groups[1].snap
                             ELSE AccountView(r.s.sdb)]
         /\ block_ctx' = block_ctx
         /\ last' = [NoLast EXCEPT !.fn = "begin_tx", !.result = r.result,
                                    !.from = Len(container),
                                    !.gas_cost = r.gas_cost,
                                    !.undone = r.s.undone]

EndTx ==
    /\ UNCHANGED circuit
    /\ pc = "end"
    /\ \E r \in {gen_end_tx_ops(State, tx, tx.root, tx.gas_left, 0,
                                block_ctx.cumulative_gas_used,
                                block_ctx.coinbase, block_ctx.base_fee)} :
         /\ Commit(r, IF tx.is_last_tx THEN "done" ELSE "idle")
         /\ tx' = tx
         /\ block_ctx' = [block_ctx EXCEPT !.cumulative_gas_used = r.cumulative,
                                           !.txs = @ + 1]
         /\ last' = [NoLast EXCEPT !.fn = "end_tx", !.result = r.result,
                                    !.from = Len(container),
                                    !.undone = r.s.undone]

\* the opcodes of the modelled traces
StepOpcodes ==
    {"JUMPDEST", "STOP", "REVERT", "SSTORE", "SELFDESTRUCT", "CALL",
     "STATICCALL", "CREATE", "CREATE2"}

\* get_step_err: the error, if any, that the trace pair shows for a step of
\* the current call.  A call is entered only below the depth limit and with
\* enough balance; at the limit the step shows a Depth error.  An error
\* raised inside a call ends it, so the trace marks that call as failing.
Classified(s, op, c) ==
    LET call == Last(s.calls)
        at_limit == call.depth >= MaxCallDepth
    IN  CASE op = "JUMPDEST" ->
                 {"None"} \cup (IF call.is_success THEN {}
                                ELSE {"OutOfGas(Constant)", "Other"})
          [] op = "STOP" -> IF call.is_success THEN {"None"} ELSE {}
          [] op = "REVERT" -> IF call.is_success THEN {} ELSE {"None"}
          [] op = "SELFDESTRUCT" ->
                 IF call.is_success /\ ~call.is_static THEN {"None"} ELSE {}
          [] op = "SSTORE" ->
                 IF ~call.is_static THEN {"None"}
                 ELSE IF ~call.is_success THEN {"WriteProtection"} ELSE {}
          [] op \in CallOpcodes ->
                 (IF at_limit THEN {"Depth(Call)"}
                  ELSE IF c.value <= s.sdb.balance[call.address] THEN {"None"}
                  ELSE {"InsufficientBalance(Call)"})
                 \cup {"Other"}
          [] op = "CREATE" ->
                 (IF at_limit THEN {"Depth(Create)"} ELSE {"None"})
                 \cup (IF call.is_success THEN {} ELSE {"OutOfGas(Create)"})
          [] op = "CREATE2" ->
                 IF at_limit THEN {"Depth(Create2)"} ELSE {"None"}
          [] OTHER -> {"None"}

\* what the trace and the handler decide for one step: the callee, the
\* value and the success of a call, the receiver of a SELFDESTRUCT, the
\* error tag the handler sets itself, the build (debug assertions on or
\* off) and the primitive that fails, if one does
NoChoice ==
    [address |-> Accounts.contract, value |-> 0, is_success |-> TRUE,
     is_static |-> FALSE, receiver |-> Accounts.eoa, tag |-> "None", debug_assertions |-> FALSE,
     fault |-> "none",
     \* the memory the trace records: whether any step from this one on
     \* has a memory change, the global memory of this step and of the next
     memory_enabled |-> FALSE, global_memory |-> <<>>, next_global_memory |-> <<>>,
     \* whether the step is the last one of the trace (geth_steps.len() = 1)
     is_last |-> FALSE,
     CHECK_MEM_STRICT |-> FALSE,
     stack |-> <<>>, result |-> <<>>, word |-> 0]

StepChoices(op) ==
    CASE op = "CALL" ->
             {[NoChoice EXCEPT !.value = v, !.is_success = ok] :
                  v \in {0, 3}, ok \in BOOLEAN}
      [] op = "STATICCALL" ->
             {[NoChoice EXCEPT !.is_success = ok, !.is_static = TRUE] :
                  ok \in BOOLEAN}
      [] op = "SELFDESTRUCT" ->
             {[NoChoice EXCEPT !.receiver = r] :
                  r \in {Accounts.eoa, Accounts.contract, Accounts.fresh}}
      [] OTHER -> {NoChoice}

\* the error tags a handler may have set on its first step, and the build
HandlerTags(error) ==
    IF error \in {"Depth(Call)", "OutOfGas(Constant)"}
    THEN {[tag |-> "None", debug_assertions |-> FALSE],
          [tag |-> error, debug_assertions |-> FALSE],
          [tag |-> "StackUnderflow", debug_assertions |-> FALSE],
          [tag |-> "StackUnderflow", debug_assertions |-> TRUE]}
    ELSE {[tag |-> "None", debug_assertions |-> FALSE]}

\* the failures of the primitives a step calls
Faults(op, error) ==
    {"none"}
    \cup (IF op = "JUMPDEST" /\ error = "None" THEN {"new_step", "handler"} ELSE {})
    \cup (IF op = "CREATE2" /\ error = "Depth(Create2)" THEN {"handler"} ELSE {})
    \cup (IF op = "CALL" /\ error = "Other"
          THEN {"parse_call", "handle_return"} ELSE {})
    \cup (IF op = "JUMPDEST" /\ error = "Other" THEN {"handle_return"} ELSE {})

Step ==
    /\ UNCHANGED circuit
    /\ pc = "exec"
    /\ calls # <<>>
    /\ block_ctx.steps < MaxSteps
    /\ \E op \in StepOpcodes :
       \E c0 \in StepChoices(op) :
       \E error \in Classified(State, op, c0) :
       \E h \in HandlerTags(error), f \in Faults(op, error) :
       \E raised \in (IF op = "JUMPDEST" /\ error = "None" /\ f = "none"
                      THEN BOOLEAN ELSE {FALSE}) :
       \E c \in {[c0 EXCEPT !.tag = h.tag,
                             !.debug_assertions = h.debug_assertions,
                             !.fault = f,
                             \* a trace of opcodes that leave the memory alone
                             !.global_memory = Last(calls).memory,
                             !.next_global_memory = Last(calls).memory,
                             !.CHECK_MEM_STRICT = block_ctx.CHECK_MEM_STRICT]} :
       \E r \in {gen_associated_ops(op, State, tx.id,
                                    [raised |-> raised, error |-> error], c)} :
         /\ (f # "none") => h.tag = "None"
         /\ Commit(r, IF r.s.calls = <<>> THEN "end" ELSE "exec")
         /\ tx' = [tx EXCEPT !.gas_left = @ - StepGas.opcode]
         /\ block_ctx' = [block_ctx EXCEPT !.steps = @ + 1]
         /\ last' = [NoLast EXCEPT
                       !.fn = "step", !.result = r.result,
                       !.from = Len(container), !.undone = r.s.undone,
                       !.op = op, !.error = error, !.raised = raised,
                       !.path = r.path, !.handler = r.handler,
                       !.tag = c.tag, !.steps = r.steps,
                       !.pushed = r.pushed,
                       !.need_restore = r.need_restore,
                       !.depth = Last(calls).depth,
                       !.frames = Len(calls),
                       !.fault = c.fault,
                       !.call = Last(calls),
                       !.receiver = c.receiver]

\* the trace of a transaction ends when the step budget is used up: the
\* calls still open return one by one
Finish ==
    /\ UNCHANGED circuit
    /\ pc = "exec"
    /\ calls # <<>>
    /\ block_ctx.steps >= MaxSteps
    /\ \E r \in {Stop(State)} :
         /\ Commit(r, IF r.s.calls = <<>> THEN "end" ELSE "exec")
         /\ tx' = tx
         /\ block_ctx' = block_ctx
         /\ last' = [NoLast EXCEPT !.fn = "finish", !.from = Len(container),
                                   !.undone = r.s.undone,
                                   !.depth = Last(calls).depth,
                                   !.frames = Len(calls)]

Next ==
    \/ BeginTx
    \/ Step
    \/ Finish
    \/ EndTx

Spec == Init /\ [][Next]_vars

(***************************************************************************)
(* The steps that copy a result into memory, on a trace that records       *)
(* memory.  The block holds one call to the contract; its begin-tx step    *)
(* is done and the trace steps follow.                                     *)
(***************************************************************************)
\* the values of the call
CallValues == {0, 3, 258}

MemTxInputs ==
    {TxInput(Accounts.contract, FALSE, v, FALSE, <<>>, 0, SomeWasm) : v \in CallValues}

MemInit ==
    /\ circuit = NoCircuit
    /\ block_ctx \in {[cumulative_gas_used |-> 0, txs |-> 0, steps |-> 0,
                       coinbase |-> Accounts.eoa, base_fee |-> Block.base_fee,
                       CHECK_MEM_STRICT |-> strict] : strict \in BOOLEAN}
    /\ \E i \in MemTxInputs :
       \E n \in {new_tx([container |-> <<>>, rwc |-> 1, sdb |-> InitSdb,
                         calls |-> <<>>, groups |-> <<>>, undone |-> NotUndone],
                        i, Accounts.eoa, TRUE)} :
       \E r \in {gen_begin_tx_ops(n.s, n.t, begin_tx_trace(i, n.t),
                                  block_ctx.coinbase)} :
         /\ container = r.s.container
         /\ rwc = r.s.rwc
         /\ sdb = r.s.sdb
         /\ calls = r.s.calls
         /\ groups = r.s.groups
         /\ tx = [n.t EXCEPT
                    !.gas_left = n.t.gas - r.gas_cost,
                    !.trace = [struct_logs_gas |-> begin_tx_trace(i, n.t).struct_logs_gas,
                               gas |-> begin_tx_trace(i, n.t).gas],
                    !.snap = AccountView(r.s.sdb)]
         /\ last = [NoLast EXCEPT !.fn = "begin_tx", !.result = r.result,
                                   !.gas_cost = r.gas_cost]
    /\ pc = "exec"

\* the opcodes of the steps: CALLVALUE, the 32-byte and the 8-byte variant
\* of the stack-to-memory handler, and the variant that copies the result
\* buffer whatever its length
MemOpcodes == {"CALLVALUE", "BLOCKHASH", "PC", "MSIZE", "GAS", "CHAINID"}

\* the destinations on top of the stack
Destinations == {0, 127}

\* a global memory other than the one given
OtherMemory(memory) == IF memory = <<7, 1>> THEN <<7, 2>> ELSE <<7, 1>>

\* what the trace holds for a step: the stack (operands below the
\* destination), the result the interpreter left (the big-endian bytes of
\* the call's value for CALLVALUE), and the global memory at the step
MemChoices(op) ==
    {[NoChoice EXCEPT
        !.stack = IF op = "BLOCKHASH" THEN <<5, d>> ELSE <<d>>,
        !.result = IF op = "CALLVALUE"
                   THEN to_be_bytes(Last(calls).value, CALL_VALUE_BYTE_LENGTH)
                   ELSE IF op = "CHAINID" THEN to_be_bytes(258, n)
                   ELSE <<>>,
        !.word = IF op \in {"BLOCKHASH", "PC", "MSIZE", "GAS"} THEN 258 ELSE 0,
        !.memory_enabled = e,
        !.global_memory = g,
        !.next_global_memory = OtherMemory(g),
        !.CHECK_MEM_STRICT = block_ctx.CHECK_MEM_STRICT] :
     d \in Destinations,
     n \in IF op = "CHAINID" THEN {8, 32} ELSE {32},
     e \in IF op = "PC" THEN BOOLEAN ELSE {TRUE},
     g \in {Last(calls).memory, OtherMemory(Last(calls).memory)}}

MemStep ==
    /\ UNCHANGED circuit
    /\ pc = "exec"
    /\ calls # <<>>
    /\ block_ctx.steps < MaxSteps
    /\ \E op \in MemOpcodes :
       \E c \in MemChoices(op) :
       \E r \in {gen_associated_ops(op, State, tx.id,
                                    [raised |-> FALSE, error |-> "None"], c)} :
         /\ Commit(r, "exec")
         /\ tx' = [tx EXCEPT !.gas_left = @ - StepGas.opcode]
         /\ block_ctx' = [block_ctx EXCEPT !.steps = @ + 1]
         /\ last' = [NoLast EXCEPT
                       !.fn = "step", !.result = r.result,
                       !.from = Len(container), !.undone = r.s.undone,
                       !.op = op, !.path = r.path, !.handler = r.handler,
                       !.steps = r.steps, !.pushed = r.pushed,
                       !.depth = Last(calls).depth,
                       !.frames = Len(calls),
                       !.call = Last(calls),
                       !.mem_check = r.mem_check,
                       !.choice = c]

\* what the trace holds for a step that copies nothing to memory: a
\* JUMPDEST, which may be the last step of the trace, or a CALL whose value
\* the caller may not have
TraceChoices(op) ==
    {[NoChoice EXCEPT
        !.value = v,
        !.memory_enabled = TRUE,
        !.global_memory = g,
        !.next_global_memory = OtherMemory(g),
        !.is_last = l,
        !.CHECK_MEM_STRICT = block_ctx.CHECK_MEM_STRICT] :
     v \in IF op = "CALL" THEN {0, Block.gas * Block.gas_price * 2} ELSE {0},
     l \in IF op = "CALL" THEN {FALSE} ELSE BOOLEAN,
     g \in {Last(calls).memory, OtherMemory(Last(calls).memory)}}

\* a step of the trace that the memory-copy handlers do not serve: a
\* JUMPDEST without error, or a CALL that the trace shows failing
MemTraceStep ==
    /\ UNCHANGED circuit
    /\ pc = "exec"
    /\ calls # <<>>
    /\ block_ctx.steps < MaxSteps
    /\ \E op \in {"JUMPDEST", "CALL"} :
       \E c \in TraceChoices(op) :
       \E error \in (IF op = "CALL" THEN Classified(State, op, c) \ {"None"}
                     ELSE {"None"}) :
       \E r \in {gen_associated_ops(op, State, tx.id,
                                    [raised |-> FALSE, error |-> error], c)} :
         /\ Commit(r, IF c.is_last THEN "end" ELSE "exec")
         /\ tx' = [tx EXCEPT !.gas_left = @ - StepGas.opcode]
         /\ block_ctx' = [block_ctx EXCEPT !.steps = @ + 1]
         /\ last' = [NoLast EXCEPT
                       !.fn = "step", !.result = r.result,
                       !.from = Len(container), !.undone = r.s.undone,
                       !.op = op, !.error = error,
                       !.path = r.path, !.handler = r.handler,
                       !.steps = r.steps, !.pushed = r.pushed,
                       !.need_restore = r.need_restore,
                       !.depth = Last(calls).depth,
                       !.frames = Len(calls),
                       !.call = Last(calls),
                       !.mem_check = r.mem_check,
                       !.choice = c]

MemNext == MemStep \/ MemTraceStep

MemSpec == MemInit /\ [][MemNext]_vars

(***************************************************************************)
(* The GAS step of the EVM circuit (EvmGasGadget) and the gas_left chain    *)
(* it constrains.  gas_left is a field element; the gadget holds the       *)
(* result in N_BYTES_U64 byte cells.  The widths are scaled: a byte has    *)
(* ByteRange values, and the field is larger than twice the range of the   *)
(* cells, as the circuit's field is larger than twice 2^64.                *)
(***************************************************************************)
N_BYTES_U64 == 2
ByteRange == 4
U64Range == ByteRange ^ N_BYTES_U64
FieldModulus == 2 * U64Range + 1

\* the assignments of the byte cells
ByteCells == [1..N_BYTES_U64 -> 0..(ByteRange - 1)]

\* from_bytes::expr: the little-endian value of the cells, in the field
RECURSIVE from_bytes_from(_, _)
from_bytes_from(bytes, i) ==
    IF i > N_BYTES_U64 THEN 0
    ELSE bytes[i] + ByteRange * from_bytes_from(bytes, i + 1)
from_bytes(bytes) == from_bytes_from(bytes, 1) % FieldModulus

\* u64::to_le_bytes
to_le_bytes(v) == [i \in 1..N_BYTES_U64 |-> (v \div (ByteRange ^ (i - 1))) % ByteRange]

\* u64::saturating_sub
saturating_sub(a, b) == IF a >= b THEN a - b ELSE 0

\* OpcodeId::GAS.constant_gas_cost()
constant_gas_cost == GasCost.QUICK

\* a faulty variant of gas_left_constraint: the cells are not tied to the
\* state's gas_left
gas_left_unconstrained(bytes, gas_left) == TRUE

\* evm_gas.rs 47-51: the cells hold the state's gas_left less the cost of
\* the GAS opcode, an equation of field elements
gas_left_constraint(bytes, gas_left) ==
    from_bytes(bytes) = (gas_left - constant_gas_cost) % FieldModulus

\* evm_gas.rs 53-59: the transition to the next step, gas_left: Delta(-cost)
gas_left_transition(gas_left) == (gas_left - constant_gas_cost) % FieldModulus

\* a faulty variant of same_context: the gas_left of the next step is not
\* tied to that of the step
same_context_free(gas_left, next_gas_left) == TRUE

\* evm_gas.rs 60-61: SameContextGadget requires the transition of the step
\* state, here of gas_left, between the step and the next
same_context(gas_left, next_gas_left) ==
    next_gas_left = gas_left_transition(gas_left)

\* the gas_left a trace may show for the step after a GAS step: the one the
\* step leaves, and those one off
NextGasLeft(gas_left) ==
    {(gas_left - constant_gas_cost + d) % FieldModulus : d \in {-1, 0, 1}}

\* evm_gas.rs 86-90: the cells as assign_exec_step fills them
gas_left_assignment(gas_left) ==
    to_le_bytes(saturating_sub(gas_left, constant_gas_cost))

\* the intrinsic gas of the modelled transactions, scaled
IntrinsicGas == {0, 1, 3}

\* the begin-tx step leaves the first trace step the gas the trace shows
GasInit ==
    /\ circuit = NoCircuit
    /\ container = <<>>
    /\ rwc = 1
    /\ sdb = InitSdb
    /\ calls = <<>>
    /\ groups = <<>>
    /\ block_ctx = [cumulative_gas_used |-> 0, txs |-> 0, steps |-> 0,
                    coinbase |-> Accounts.eoa, base_fee |-> Block.base_fee,
                    CHECK_MEM_STRICT |-> FALSE]
    /\ pc = "exec"
    /\ \E gas \in 0..(U64Range - 1), intrinsic \in IntrinsicGas :
         LET struct_logs_gas == <<gas - intrinsic>>
             gas_cost == begin_tx_gas_cost(gas, struct_logs_gas, intrinsic)
         IN  /\ intrinsic <= gas
             /\ tx = [NoTx EXCEPT !.id = 1, !.gas = gas,
                                  !.gas_left = gas - gas_cost, !.has_steps = TRUE]
             /\ last = [NoLast EXCEPT !.fn = "begin_tx", !.gas_cost = gas_cost,
                                      !.gas_left = gas]

\* a GAS step the circuit accepts: some assignment of the cells satisfies
\* the gadget, and the next step starts with the gas_left of the transition
GasStep ==
    /\ UNCHANGED circuit
    /\ pc = "exec"
    /\ block_ctx.steps < U64Range
    /\ \E bytes \in ByteCells, next_gas_left \in NextGasLeft(tx.gas_left) :
         /\ gas_left_constraint(bytes, tx.gas_left)
         /\ same_context(tx.gas_left, next_gas_left)
         /\ tx' = [tx EXCEPT !.gas_left = next_gas_left]
         /\ rwc' = rwc + 1
         /\ block_ctx' = [block_ctx EXCEPT !.steps = @ + 1]
         /\ last' = [NoLast EXCEPT
                       !.fn = "gas", !.op = "GAS", !.gas_left = tx.gas_left,
                       !.gas_cost = constant_gas_cost, !.path = "normal",
                       !.handler = fn_gen_associated_ops("GAS"),
                       !.steps = <<to_le_bytes(from_bytes(bytes))>>,
                       !.choice = [bytes |-> bytes, next_gas_left |-> next_gas_left],
                       !.tag = IF bytes = gas_left_assignment(tx.gas_left)
                               THEN "assigned" ELSE "chosen"]
         /\ UNCHANGED <<container, sdb, calls, groups, pc>>

\* a GAS step whose cost exceeds gas_left: the trace shows an error, which
\* get_step_err classifies as out of gas; the call ends with no gas left
OutOfGasStep ==
    /\ UNCHANGED circuit
    /\ pc = "exec"
    /\ tx.gas_left < constant_gas_cost
    /\ tx' = [tx EXCEPT !.gas_left = 0]
    /\ pc' = "end"
    /\ block_ctx' = [block_ctx EXCEPT !.steps = @ + 1]
    /\ last' = [NoLast EXCEPT
                  !.fn = "step", !.op = "GAS", !.gas_left = tx.gas_left,
                  !.gas_cost = constant_gas_cost, !.path = "handled",
                  !.error = "OutOfGas(Constant)",
                  !.handler = fn_gen_error_state_associated_ops(
                                  "GAS", "OutOfGas(Constant)"),
                  !.steps = <<ExecStep("OutOfGas(Constant)")>>]
    /\ UNCHANGED <<container, rwc, sdb, calls, groups>>

\* a trace of a GAS step that has the gas for it, which the circuit
\* rejects: the cells or the gas_left of the next step fail a constraint
\* of the gadget
RejectedStep ==
    /\ UNCHANGED circuit
    /\ pc = "exec"
    /\ tx.gas_left >= constant_gas_cost
    /\ \E bytes \in ByteCells, next_gas_left \in NextGasLeft(tx.gas_left) :
         /\ ~(/\ gas_left_constraint(bytes, tx.gas_left)
              /\ same_context(tx.gas_left, next_gas_left))
         /\ pc' = "rejected"
         /\ last' = [NoLast EXCEPT
                       !.fn = "rejected", !.op = "GAS", !.gas_left = tx.gas_left,
                       !.gas_cost = constant_gas_cost,
                       !.choice = [bytes |-> bytes, next_gas_left |-> next_gas_left]]
         /\ UNCHANGED <<container, rwc, sdb, calls, groups, tx, block_ctx>>

GasNext ==
    \/ GasStep
    \/ OutOfGasStep
    \/ RejectedStep

GasSpec == GasInit /\ [][GasNext]_vars

(***************************************************************************)
(* The out-of-gas error step of SLOAD and SSTORE in the EVM circuit         *)
(* (ErrorOOGSloadSstoreGadget).  A program of two constants and an SLOAD    *)
(* or SSTORE, run once or twice on one slot, in a root call or in a call    *)
(* made by the root call; last.choice holds the data of the run:            *)
(*   opcode, value, value_prev, original_value, is_warm : the operation,    *)
(*       the word it stores, the slot's current and original word, whether  *)
(*       the slot has been accessed                                         *)
(*   rounds : how often the program is yet to run                           *)
(*   program_cost : what the program costs when it has the gas for it       *)
(***************************************************************************)
\* the words a slot holds
Words == {0, 4, 5}

\* the slot, and where the program keeps the key and the value in memory
OogProgram == [key |-> 7, key_offset |-> 0, value_offset |-> 32]

\* cal_sload_gas_cost_for_assignment
cal_sload_gas_cost_for_assignment(is_warm) ==
    IF is_warm THEN GasCost.WARM_ACCESS ELSE GasCost.COLD_SLOAD

\* cal_sstore_gas_cost_for_assignment
cal_sstore_gas_cost_for_assignment(value, value_prev, original_value, is_warm) ==
    (IF value_prev = value THEN GasCost.WARM_ACCESS
     ELSE IF original_value = value_prev
     THEN IF original_value = 0 THEN GasCost.SSTORE_SET ELSE GasCost.SSTORE_RESET
     ELSE GasCost.WARM_ACCESS)
    + (IF is_warm THEN 0 ELSE GasCost.COLD_SLOAD)

\* error_oog_sload_sstore.rs 58-63, 116-120: the cost the gadget selects
\* for the opcode
is_sstore(d) == d.opcode = "SSTORE"
oog_gas_cost(d) ==
    IF is_sstore(d)
    THEN cal_sstore_gas_cost_for_assignment(d.value, d.value_prev,
                                            d.original_value, d.is_warm)
    ELSE cal_sload_gas_cost_for_assignment(d.is_warm)

\* a faulty variant of is_static_constraint: is_static is left free
is_static_unconstrained(is_static, d) == TRUE

\* error_oog_sload_sstore.rs 69-70: is_static must be false for SSTORE
is_static_constraint(is_static, d) == b2n(is_static) * b2n(is_sstore(d)) = 0

\* error_oog_sload_sstore.rs 114-122: gas_left < gas cost
insufficient_gas_cost(gas_left, d) == gas_left < oog_gas_cost(d)

\* a faulty variant of insufficient_gas_sentry: gas_left is compared with
\* the sentry itself
insufficient_gas_sentry_strict(gas_left) == gas_left < GasCost.SSTORE_SENTRY

\* error_oog_sload_sstore.rs 124-128: gas_left < SSTORE_SENTRY + 1
insufficient_gas_sentry(gas_left) == gas_left < GasCost.SSTORE_SENTRY + 1

\* error_oog_sload_sstore.rs 129-136
insufficient_gas(gas_left, d) ==
    \/ insufficient_gas_cost(gas_left, d)
    \/ is_sstore(d) /\ insufficient_gas_sentry(gas_left)

\* the constraints of the gadget on a step
oog_sload_sstore_constraints(gas_left, is_static, d) ==
    /\ d.opcode \in {"SSTORE", "SLOAD"}
    /\ is_static_constraint(is_static, d)
    /\ insufficient_gas(gas_left, d)

\* the error the trace shows for the operation: an SSTORE in a static call
\* is a write-protection error, an operation without the gas for it is out
\* of gas
sload_sstore_error(gas_left, is_static, d) ==
    IF is_sstore(d) /\ is_static THEN "WriteProtection"
    ELSE IF \/ gas_left < oog_gas_cost(d)
            \/ is_sstore(d) /\ gas_left <= GasCost.SSTORE_SENTRY
    THEN "OutOfGas(SloadSstore)"
    ELSE "None"

\* the memory lookups of a word: 32 reads of its big-endian bytes
memory_rlc_lookup(s, offset, word) ==
    [s EXCEPT
       !.container = @ \o
           [i \in 1..32 |->
               [tag |-> "Memory", id |-> Last(s.calls).call_id,
                addr |-> offset + i - 1, field |-> "",
                value |-> to_be_bytes(word, 32)[i],
                value_prev |-> to_be_bytes(word, 32)[i],
                rwc |-> s.rwc + i - 1, rw |-> "READ", reversion |-> FALSE]],
       !.rwc = @ + 32]

\* error_oog_sload_sstore.rs 92-101: the storage read of SSTORE
oog_storage_read(s, d) ==
    IF is_sstore(d)
    THEN push_op(s, "READ", StorageOp(Last(s.calls).address, OogProgram.key,
                                      d.value_prev, d.value_prev))
    ELSE s

\* error_oog_sload_sstore.rs 79-90: the stack pops, the memory lookups of
\* key and value, the read of the access list
oog_lookups(s, tx_id, d) ==
    oog_storage_read(
        push_op(
            memory_rlc_lookup(
                memory_rlc_lookup(
                    stack_read(stack_read(s, 1022, OogProgram.value_offset), 1023, OogProgram.key_offset),
                    OogProgram.key_offset, OogProgram.key),
                OogProgram.value_offset, d.value),
            "READ",
            Op("TxAccessListAccountStorage", tx_id, Last(s.calls).address,
               OogProgram.key, b2n(d.is_warm), b2n(d.is_warm))),
        d)

\* error_oog_sload_sstore.rs 66-68: the call-context lookups
oog_call_context(s, tx_id) ==
    call_context_read(
        call_context_read(
            call_context_read(s, Last(s.calls).call_id, "TxId", tx_id),
            Last(s.calls).call_id, "IsStatic", b2n(Last(s.calls).is_static)),
        Last(s.calls).call_id, "CalleeAddress", Last(s.calls).address)

\* the cost of the program when every step of it has the gas it needs
ConstantsCost == 2 * StepGas.opcode
after_first_round(d) ==
    [d EXCEPT !.is_warm = TRUE,
              !.value_prev = IF is_sstore(d) THEN d.value ELSE @,
              !.rounds = @ - 1]
program_cost(d) ==
    ConstantsCost + oog_gas_cost(d)
    + (IF d.rounds = 2 THEN ConstantsCost + oog_gas_cost(after_first_round(d)) ELSE 0)

\* the runs: an SLOAD, or an SSTORE of any word to a slot with any current
\* and original word; the slot is cold at the start
OogData ==
    {[opcode |-> "SLOAD", value |-> 0, value_prev |-> 0, original_value |-> 0,
      is_warm |-> FALSE, rounds |-> n, program_cost |-> 0] : n \in {1, 2}}
    \cup
    {[opcode |-> "SSTORE", value |-> v, value_prev |-> vp, original_value |-> vo,
      is_warm |-> FALSE, rounds |-> n, program_cost |-> 0] :
          v \in Words, vp \in Words, vo \in Words,
                                         n \in {1, 2}}

\* the gas the program is given: its cost, one less, and what leaves the
\* sentry and one more at the operation
Budgets(d) ==
    {program_cost(d) - 1, program_cost(d),
     ConstantsCost + GasCost.SSTORE_SENTRY, ConstantsCost + GasCost.SSTORE_SENTRY + 1}

\* the calls: the root call alone, or a call the root call made, static or
\* not, with the gas of the budget
RootFrame ==
    [NoCall EXCEPT !.call_id = 1, !.caller_address = Accounts.eoa,
                   !.address = Accounts.contract, !.depth = 1, !.is_root = TRUE,
                   !.code_hash = CodeHash.code]
InternalFrame(is_static) ==
    [NoCall EXCEPT !.call_id = 2, !.caller_address = Accounts.contract,
                   !.address = Accounts.contract, !.depth = 2,
                   !.is_static = is_static, !.code_hash = CodeHash.code]
OogFrames ==
    {<<RootFrame>>} \cup {<<RootFrame, InternalFrame(st)>> : st \in BOOLEAN}

\* the state in which the program starts
OogInit ==
    /\ circuit = NoCircuit
    /\ container = <<>>
    /\ rwc = 1
    /\ sdb = InitSdb
    /\ groups = <<>>
    /\ calls \in OogFrames
    /\ block_ctx = [cumulative_gas_used |-> 0, txs |-> 0, steps |-> 0,
                    coinbase |-> Accounts.eoa, base_fee |-> Block.base_fee,
                    CHECK_MEM_STRICT |-> FALSE]
    /\ pc = "exec"
    /\ \E d \in OogData :
       \E budget \in Budgets(d) :
         /\ tx = [NoTx EXCEPT !.id = 1, !.gas = GasCost.TX + budget,
                              !.gas_left = budget, !.has_steps = TRUE]
         /\ last = [NoLast EXCEPT !.fn = "begin_tx", !.gas_cost = GasCost.TX,
                                  !.gas_left = GasCost.TX + budget,
                                  !.choice = [d EXCEPT !.program_cost =
                                                          program_cost(d)]]

\* the program is at its SLOAD or SSTORE: the two constants are on the
\* stack
AtOperation == pc = "exec" /\ block_ctx.steps % 3 = 2

\* a constant of the program
ConstStep ==
    /\ UNCHANGED circuit
    /\ pc = "exec"
    /\ block_ctx.steps % 3 < 2
    /\ tx.gas_left >= StepGas.opcode
    /\ tx' = [tx EXCEPT !.gas_left = @ - StepGas.opcode]
    /\ block_ctx' = [block_ctx EXCEPT !.steps = @ + 1]
    /\ last' = [NoLast EXCEPT !.fn = "step", !.op = "I32Const", !.path = "normal",
                              !.gas_left = tx.gas_left,
                              !.gas_cost = StepGas.opcode,
                              !.handler = fn_gen_associated_ops("I32Const"),
                              !.call = Last(calls),
                              !.choice = last.choice]
    /\ UNCHANGED <<container, rwc, sdb, calls, groups, pc>>

\* an SLOAD or SSTORE that has the gas it needs: the slot is warm after it
SloadSstoreStep ==
    /\ UNCHANGED circuit
    /\ AtOperation
    /\ sload_sstore_error(tx.gas_left, Last(calls).is_static, last.choice) = "None"
    /\ tx' = [tx EXCEPT !.gas_left = @ - oog_gas_cost(last.choice)]
    /\ block_ctx' = [block_ctx EXCEPT !.steps = @ + 1]
    /\ pc' = IF last.choice.rounds = 1 THEN "end" ELSE "exec"
    /\ last' = [NoLast EXCEPT !.fn = "step", !.op = last.choice.opcode,
                              !.path = "normal", !.gas_left = tx.gas_left,
                              !.gas_cost = oog_gas_cost(last.choice),
                              !.handler = fn_gen_associated_ops(last.choice.opcode),
                              !.call = Last(calls),
                              !.choice = after_first_round(last.choice)]
    /\ UNCHANGED <<container, rwc, sdb, calls, groups>>

\* what an out-of-gas error step of the operation leaves, whether the
\* circuit accepts it or not: the lookups of the gadget, the error the
\* trace shows and the handler of that error
OogErrorStep(accepted) ==
    /\ UNCHANGED circuit
    /\ \E r \in {oog_lookups(oog_call_context(State, tx.id), tx.id, last.choice)} :
         /\ container' = r.container
         /\ rwc' = r.rwc
    /\ pc' = IF accepted THEN "end" ELSE "rejected"
    /\ tx' = [tx EXCEPT !.gas_left = IF accepted THEN 0 ELSE @]
    /\ block_ctx' = [block_ctx EXCEPT !.steps = @ + 1]
    /\ last' = [NoLast EXCEPT
                  !.fn = "oog", !.op = last.choice.opcode, !.path = "handled",
                  !.from = Len(container),
                  !.gas_left = tx.gas_left,
                  !.gas_cost = oog_gas_cost(last.choice),
                  !.error = sload_sstore_error(tx.gas_left, Last(calls).is_static,
                                               last.choice),
                  !.handler = fn_gen_error_state_associated_ops(
                                  last.choice.opcode,
                                  sload_sstore_error(tx.gas_left,
                                                     Last(calls).is_static,
                                                     last.choice)),
                  !.tag = IF accepted THEN "accepted" ELSE "rejected",
                  !.call = Last(calls),
                  !.frames = Len(calls),
                  !.choice = last.choice]
    /\ UNCHANGED <<sdb, calls, groups>>

\* the step is given to the circuit as an ErrorOutOfGasSloadSstore step
\* and satisfies the gadget
ErrorOOGSloadSstoreStep ==
    /\ AtOperation
    /\ oog_sload_sstore_constraints(tx.gas_left, Last(calls).is_static, last.choice)
    /\ OogErrorStep(TRUE)

\* the step is given to the circuit as an ErrorOutOfGasSloadSstore step
\* and fails a constraint of the gadget
RejectedOogStep ==
    /\ AtOperation
    /\ ~oog_sload_sstore_constraints(tx.gas_left, Last(calls).is_static, last.choice)
    /\ OogErrorStep(FALSE)

OogNext ==
    \/ ConstStep
    \/ SloadSstoreStep
    \/ ErrorOOGSloadSstoreStep
    \/ RejectedOogStep

OogSpec == OogInit /\ [][OogNext]_vars

(***************************************************************************)
(* The helpers of the WASM circuit over a bytecode (wasm_circuit/common.rs) *)
(* wasm_compute_section_len, markup_bytes_section, markup_name_section.     *)
(* The widths are scaled: a bytecode byte holds a continuation bit above a *)
(* payload of Scaled.LEB_BASE values (0b10000000 in the source), and a u32 *)
(* holds Scaled.U32 values, so that, as in the source,                     *)
(*   LEB_BASE^(MAX_LEB128_BYTES-1) < U32 < LEB_BASE^MAX_LEB128_BYTES.      *)
(* circuit holds the bytecode, the cells assigned so far (one record per   *)
(* call of assign, in order) and the call made with its result.            *)
(***************************************************************************)
MaxWbLen == 5
MAX_LEB128_BYTES == 5
Scaled == [LEB_BASE |-> 4, U32 |-> 512]

\* the bus-mapping does not run while the circuit is assigned
bus == <<container, rwc, sdb, calls, groups, tx, block_ctx, pc, last>>
BusIdle ==
    /\ container = <<>>
    /\ rwc = 1
    /\ sdb = InitSdb
    /\ calls = <<>>
    /\ groups = <<>>
    /\ tx = NoTx
    /\ block_ctx = [cumulative_gas_used |-> 0, txs |-> 0, steps |-> 0,
                    coinbase |-> Accounts.eoa, base_fee |-> Block.base_fee,
                    CHECK_MEM_STRICT |-> FALSE]
    /\ pc = "idle"
    /\ last = NoLast

\* the bytes of the bytecodes: payload 1 or 3, continuation bit clear or set
WbBytes == {1, 3, 1 + Scaled.LEB_BASE, 3 + Scaled.LEB_BASE}

RECURSIVE SeqsUpTo(_, _)
SeqsUpTo(S, n) ==
    IF n = 0 THEN {<<>>}
    ELSE SeqsUpTo(S, n - 1)
         \cup {Append(w, b) : w \in {v \in SeqsUpTo(S, n - 1) : Len(v) = n - 1},
                              b \in S}

Bytecodes == SeqsUpTo(WbBytes, MaxWbLen)

\* num_traits::checked_pow over u32: None (is_some false) when the power
\* does not fit
checked_pow(base, exp) ==
    IF base ^ exp >= Scaled.U32 THEN [is_some |-> FALSE, value |-> 0]
    ELSE [is_some |-> TRUE, value |-> base ^ exp]

\* the payload of a byte (byte & 0b1111111) weighted by its position, as the
\* u32 product of 850 without overflow checks keeps it
byte_val(wb, len_start_index, i) ==
    ((wb[i + 1] % Scaled.LEB_BASE)
         * checked_pow(Scaled.LEB_BASE, i - len_start_index).value) % Scaled.U32

\* whether the u32 product of 850 does not fit
byte_val_overflows(wb, len_start_index, i) ==
    (wb[i + 1] % Scaled.LEB_BASE)
        * checked_pow(Scaled.LEB_BASE, i - len_start_index).value >= Scaled.U32

\* common.rs 840-861, the loop from byte i (0-based) on.  A build with
\* overflow checks panics when the product does not fit, a build without
\* them keeps its low bits
RECURSIVE section_len_loop(_, _, _, _, _)
section_len_loop(wb, len_start_index, i, section_len, overflow_checks) ==
    IF i >= Len(wb)
    THEN \* 847
         [result |-> "IndexOutOfBoundsSimple", section_len |-> 0, count |-> 0]
    ELSE IF ~checked_pow(Scaled.LEB_BASE, i - len_start_index).is_some
    THEN \* 849
         [result |-> "ComputationFailed", section_len |-> 0, count |-> 0]
    ELSE IF overflow_checks /\ byte_val_overflows(wb, len_start_index, i)
    THEN \* 850
         [result |-> "Panic", section_len |-> 0, count |-> 0]
    ELSE IF wb[i + 1] \div Scaled.LEB_BASE = 0
    THEN \* 851-854, 860
         [result |-> "Ok",
          section_len |-> section_len + byte_val(wb, len_start_index, i),
          count |-> i - len_start_index + 1]
    ELSE IF i + 1 - len_start_index >= MAX_LEB128_BYTES
    THEN \* 855-858
         [result |-> "Leb128MaxBytes", section_len |-> 0, count |-> 0]
    ELSE section_len_loop(wb, len_start_index, i + 1,
                          section_len + byte_val(wb, len_start_index, i),
                          overflow_checks)

wasm_compute_section_len(wb, len_start_index, overflow_checks) ==
    section_len_loop(wb, len_start_index, len_start_index, 0, overflow_checks)

\* assign (common.rs 697-717) with the assign_internal of the section
\* chips (assign_offset = wb_offset + assign_delta, for instance
\* sections/data/body/circuit.rs 122): one more assigned row
assign(region, wb, wb_offset, assign_delta, assign_value) ==
    Append(region, [row |-> wb_offset + assign_delta, wb_offset |-> wb_offset,
                    value |-> assign_value])

\* the assignments of the loop at 791-801: self.assign is called with
\* offset + assign_delta as its assign_delta
bytes_section_rows(region, wb, wb_offset, offset_end, assign_delta) ==
    region \o [k \in 1..(offset_end - wb_offset) |->
                  assign(<<>>, wb, wb_offset + k - 1,
                         (wb_offset + k - 1) + assign_delta, 1)[1]]

\* common.rs 778-803
markup_bytes_section(region, wb, wb_offset, assign_delta, len) ==
    IF wb_offset + len >= Len(wb)
    THEN [result |-> "IndexOutOfBounds", region |-> region, offset |-> wb_offset]
    ELSE [result |-> "Ok",
          region |-> bytes_section_rows(region, wb, wb_offset, wb_offset + len,
                                        assign_delta),
          offset |-> wb_offset + len]

\* the assignments of the loop at 821-831
name_section_rows(region, wb, wb_offset, offset_end, assign_delta, assign_value) ==
    region \o [k \in 1..(offset_end - wb_offset) |->
                  assign(<<>>, wb, wb_offset + k - 1, assign_delta,
                         assign_value)[1]]

\* common.rs 807-833
markup_name_section(region, wb, wb_offset, assign_delta, name_len, assign_value) ==
    IF wb_offset + name_len >= Len(wb)
    THEN [result |-> "IndexOutOfBounds", region |-> region, offset |-> wb_offset]
    ELSE [result |-> "Ok",
          region |-> name_section_rows(region, wb, wb_offset, wb_offset + name_len,
                                       assign_delta, assign_value),
          offset |-> wb_offset + name_len]

\* a bytecode is given and nothing is assigned yet
WbInit ==
    /\ BusIdle
    /\ circuit \in {[wb |-> w, region |-> <<>>, fn |-> "none",
                     index |-> 0, len |-> 0, assign_delta |-> 0,
                     overflow_checks |-> FALSE,
                     result |-> "none", section_len |-> 0, count |-> 0,
                     offset |-> 0] : w \in Bytecodes}

\* the length of a section is computed at an index of the bytecode
ComputeSectionLen ==
    /\ circuit.fn = "none"
    /\ UNCHANGED bus
    /\ \E len_start_index \in 0..1, overflow_checks \in BOOLEAN :
       \E r \in {wasm_compute_section_len(circuit.wb, len_start_index,
                                          overflow_checks)} :
         circuit' = [circuit EXCEPT !.fn = "wasm_compute_section_len",
                                    !.index = len_start_index,
                                    !.overflow_checks = overflow_checks,
                                    !.result = r.result,
                                    !.section_len = r.section_len,
                                    !.count = r.count]

\* the spans marked: from the first bytes of the bytecode, up to one byte
\* past its end
Spans(wb) ==
    {[offset |-> o, len |-> l] : o \in 0..2, l \in 0..(MaxWbLen + 1)}

MarkupBytesSection ==
    /\ circuit.fn = "none"
    /\ UNCHANGED bus
    /\ \E sp \in Spans(circuit.wb), assign_delta \in 0..1 :
       \E r \in {markup_bytes_section(circuit.region, circuit.wb, sp.offset,
                                      assign_delta, sp.len)} :
         circuit' = [circuit EXCEPT !.fn = "markup_bytes_section",
                                    !.index = sp.offset, !.len = sp.len,
                                    !.assign_delta = assign_delta,
                                    !.result = r.result,
                                    !.region = r.region,
                                    !.offset = r.offset]

MarkupNameSection ==
    /\ circuit.fn = "none"
    /\ UNCHANGED bus
    /\ \E sp \in Spans(circuit.wb), assign_delta \in 0..1 :
       \E r \in {markup_name_section(circuit.region, circuit.wb, sp.offset,
                                     assign_delta, sp.len, 1)} :
         circuit' = [circuit EXCEPT !.fn = "markup_name_section",
                                    !.index = sp.offset, !.len = sp.len,
                                    !.assign_delta = assign_delta,
                                    !.result = r.result,
                                    !.region = r.region,
                                    !.offset = r.offset]

WbNext ==
    \/ ComputeSectionLen
    \/ MarkupBytesSection
    \/ MarkupNameSection

WbSpec == WbInit /\ [][WbNext]_vars

(***************************************************************************)
(* The error code of the WASM circuit (WasmErrorAwareChip, SharedState).   *)
(* circuit.region is the sequence of the rows assigned so far, a record    *)
(* of cells per row; a cell that was not assigned, and a cell of a row     *)
(* outside the region, reads 0.  A gate is a list of polynomials that      *)
(* must all be zero on a row; the cells hold small integers, for which     *)
(* field arithmetic is integer arithmetic.                                 *)
(***************************************************************************)
MaxRows == 4

\* the cell of column col at row r (1-based)
Cell(region, r, col) ==
    IF r \in 1..Len(region) THEN region[r][col] ELSE 0

\* a faulty variant of error_code_gate: the error code is not required to
\* be boolean
error_code_gate_any_value(region, r) ==
    LET q_enable == Cell(region, r, "q_enable")
        q_first == Cell(region, r, "q_first")
        q_last == Cell(region, r, "q_last")
        error_code == Cell(region, r, "error_code")
    IN  <<q_enable * ((1 - q_first) * (1 - error_code)
                          * (error_code - Cell(region, r - 1, "error_code"))),
          q_enable * ((1 - q_last) * error_code
                          * (error_code - Cell(region, r + 1, "error_code")))>>

\* common.rs 488-521: the polynomials of the "ErrorCode gate" at row r
error_code_gate(region, r) ==
    LET q_enable == Cell(region, r, "q_enable")
        q_first == Cell(region, r, "q_first")
        q_last == Cell(region, r, "q_last")
        error_code == Cell(region, r, "error_code")
    IN  <<\* 498
          q_enable * (error_code * (1 - error_code)),
          \* 500-510
          q_enable * ((1 - q_first) * (1 - error_code)
                          * (error_code - Cell(region, r - 1, "error_code"))),
          \* 511-521
          q_enable * ((1 - q_last) * error_code
                          * (error_code - Cell(region, r + 1, "error_code")))>>

\* a gate holds on a row when each of its polynomials is zero
Satisfied(polys) == \A i \in 1..Len(polys) : polys[i] = 0

\* types.rs 703-708: the methods of SharedState on the error code
error_code_turn_on(shared_state) == [shared_state EXCEPT !.error_code = 1]
error_code_reset(shared_state) == [shared_state EXCEPT !.error_code = 0]

\* common.rs 524-546: the error code of the shared state, or the replacer
\* when one is given, is assigned at the row
assign_error_code(row, shared_state, error_code_replacer) ==
    [row EXCEPT !.error_code = IF error_code_replacer.is_some
                               THEN error_code_replacer.value
                               ELSE shared_state.error_code]

\* the replacers given to assign_error_code: none, or a value
Replacers ==
    {[is_some |-> FALSE, value |-> 0]}
    \cup {[is_some |-> TRUE, value |-> v] : v \in 0..2}

\* the row of a byte of a bytecode, before its error code is assigned
ErrRow(q_first, q_last) ==
    [q_enable |-> 1, q_first |-> b2n(q_first), q_last |-> b2n(q_last),
     error_code |-> 0]

ErrInit ==
    /\ BusIdle
    /\ circuit = [wb |-> <<>>, region |-> <<>>,
                  shared_state |-> [bytecode_number |-> 1, error_code |-> 0]]

\* the next byte of the bytecode gets its row; the bytecode may end with it
AssignErrorCode ==
    /\ Len(circuit.region) < MaxRows
    /\ UNCHANGED bus
    /\ \E q_last \in BOOLEAN, error_code_replacer \in Replacers :
         circuit' = [circuit EXCEPT
            !.region = Append(@, assign_error_code(
                ErrRow(Cell(circuit.region, Len(circuit.region), "q_last") = 1
                           \/ circuit.region = <<>>,
                       q_last),
                circuit.shared_state, error_code_replacer)),
            !.shared_state.bytecode_number = IF q_last THEN @ + 1 ELSE @]

\* an error is found in the bytecode
ErrorCodeTurnOn ==
    /\ Len(circuit.region) < MaxRows
    /\ circuit.shared_state.error_code = 0
    /\ UNCHANGED bus
    /\ circuit' = [circuit EXCEPT
                      !.shared_state = error_code_turn_on(@)]

ErrorCodeReset ==
    /\ Len(circuit.region) < MaxRows
    /\ circuit.shared_state.error_code = 1
    /\ UNCHANGED bus
    /\ circuit' = [circuit EXCEPT
                      !.shared_state = error_code_reset(@)]

ErrNext ==
    \/ AssignErrorCode
    \/ ErrorCodeTurnOn
    \/ ErrorCodeReset

ErrSpec == ErrInit /\ [][ErrNext]_vars

(***************************************************************************)
(* The section body chips of the WASM circuit (function, data and table    *)
(* section bodies).  The region has one row per byte of the bytecode, row  *)
(* o + 1 for the byte at offset o; a row is a record of the cells of every *)
(* column, 0 where nothing was assigned.  Column "byte" is the value       *)
(* column of the bytecode table.  The assign types of a chip are named by  *)
(* the column they assign.  An assign_auto threads a record c: the result  *)
(* so far ("Ok" or the error that ended it, as the ? operator does), the   *)
(* region, the offset reached, and the values of the last LEB read.        *)
(***************************************************************************)
Columns ==
    {"byte", "q_enable", "q_first", "q_last", "error_code", "func_count",
     "leb_q_enable", "leb_is_first_byte", "leb_is_last_byte", "sn",
     "body_item_rev_count", "body_byte_rev_index",
     "is_items_count", "is_typeidx",
     "is_memidx", "is_mem_segment_type", "is_mem_segment_size_opcode",
     "is_mem_segment_size", "is_block_end", "is_mem_segment_len",
     "is_mem_segment_bytes", "is_mem_segment_type_ctx", "mem_segment_type",
     "mem_segment_type_chip",
     "is_reference_type_count", "is_reference_type", "is_limit_type",
     "is_limit_min", "is_limit_max", "is_limit_type_ctx", "limit_type",
     "limit_type_chip", "lt_chip_lt"}

BlankRegion(wb) ==
    [o \in 1..Len(wb) |-> [col \in Columns |-> IF col = "byte" THEN wb[o] ELSE 0]]

Started(region, wb_offset) ==
    [result |-> "Ok", region |-> region, offset |-> wb_offset,
     sn |-> 0, leb_len |-> 0, rev_count |-> 0, item_start |-> wb_offset,
     kind |-> 0, aux |-> 0]

\* the unsigned LEB128 number that starts at wb_offset: the offset of its
\* last byte (the first byte without the continuation bit), -1 when the
\* bytes end before it
RECURSIVE leb128_last_byte_offset(_, _)
leb128_last_byte_offset(wb, offset) ==
    IF offset >= Len(wb) THEN -1
    ELSE IF wb[offset + 1] < 128 THEN offset
    ELSE leb128_last_byte_offset(wb, offset + 1)

RECURSIVE leb128_sn(_, _, _)
leb128_sn(wb, offset, last_byte_offset) ==
    IF offset > last_byte_offset THEN 0
    ELSE (wb[offset + 1] % 128) + 128 * leb128_sn(wb, offset + 1, last_byte_offset)

leb128_compute_sn(wb, wb_offset) ==
    IF leb128_last_byte_offset(wb, wb_offset) < 0
    THEN [is_ok |-> FALSE, sn |-> 0, last_byte_offset |-> 0]
    ELSE [is_ok |-> TRUE,
          sn |-> leb128_sn(wb, wb_offset, leb128_last_byte_offset(wb, wb_offset)),
          last_byte_offset |-> leb128_last_byte_offset(wb, wb_offset)]

NoLebParams == [is_some |-> FALSE, byte_rel_offset |-> 0, last_byte_rel_offset |-> 0, sn |-> 0]

\* the LEB128 chip's cells of a row: enabled, first and last byte of the
\* number, and the number itself on each of its rows
leb128_chip_assign(row, p) ==
    [row EXCEPT !.leb_q_enable = 1,
                !.leb_is_first_byte = b2n(p.byte_rel_offset = 0),
                !.leb_is_last_byte = b2n(p.byte_rel_offset = p.last_byte_rel_offset),
                !.sn = p.sn]

\* the assign types for which assign_internal hands the LEB parameters to
\* the LEB128 chip (function 110, data 142-147, table 116-122)
LebAssignTypes(chip) ==
    CASE chip = "function" -> {"is_items_count", "is_typeidx"}
      [] chip = "data" -> {"is_items_count", "is_mem_segment_size", "is_mem_segment_len"}
      [] chip = "table" -> {"is_reference_type_count", "is_limit_min", "is_limit_max"}

\* the values of the enumerations behind the columns assigned through
\* try_into (types.rs 143-181, 210-233)
EnumValues == [limit_type |-> {0, 1}, mem_segment_type |-> {0, 1, 2}]

\* one assign type of the loop of assign_internal; c.result becomes the
\* error, the cell of the column stays assigned as in the code
assign_type_at(c, chip, row, assign_type, assign_value, leb_params) ==
    IF assign_type \in LebAssignTypes(chip) /\ ~leb_params.is_some
    THEN [c EXCEPT !.result = "Panic"]
    ELSE IF assign_type \in LebAssignTypes(chip)
    THEN [c EXCEPT !.region[row] = [leb128_chip_assign(@, leb_params) EXCEPT ![assign_type] = assign_value]]
    ELSE IF assign_type \in DOMAIN EnumValues /\ assign_value \notin EnumValues[assign_type]
    THEN [c EXCEPT !.region[row][assign_type] = assign_value,
                   !.result = "InvalidEnumValue"]
    ELSE IF assign_type = "limit_type"
    THEN [c EXCEPT !.region[row].limit_type = assign_value,
                   !.region[row].limit_type_chip = assign_value]
    ELSE IF assign_type = "mem_segment_type"
    THEN [c EXCEPT !.region[row].mem_segment_type = assign_value,
                   !.region[row].mem_segment_type_chip = assign_value]
    ELSE [c EXCEPT !.region[row][assign_type] = assign_value]

RECURSIVE assign_types_at(_, _, _, _, _, _)
assign_types_at(c, chip, row, assign_types, assign_value, leb_params) ==
    IF assign_types = <<>> \/ c.result # "Ok" THEN c
    ELSE assign_types_at(assign_type_at(c, chip, row, assign_types[1], assign_value, leb_params), chip, row, Tail(assign_types), assign_value, leb_params)

\* assign_internal of the section body chips (function 82-190, data
\* 111-373, table 92-283): q_enable and the function count of the shared
\* state (0 here), then each assign type
assign_internal(c, chip, wb, wb_offset, assign_delta, assign_types, assign_value, leb_params) ==
    IF wb_offset + assign_delta + 1 \notin DOMAIN c.region
    THEN [c EXCEPT !.result = "AssignAt"]
    ELSE assign_types_at([c EXCEPT !.region[wb_offset + assign_delta + 1].q_enable = 1,
                                   !.region[wb_offset + assign_delta + 1].func_count = 0],
                         chip, wb_offset + assign_delta + 1, assign_types, assign_value, leb_params)

\* common.rs 697-717, assign of WasmAssignAwareChip for a section body
\* chip: the offset is validated, then assign_internal; nothing is done
\* once an earlier call has failed
assign_checked(c, chip, wb, wb_offset, assign_delta, assign_types, assign_value, leb_params) ==
    IF c.result # "Ok" THEN c
    ELSE IF wb_offset >= Len(wb) THEN [c EXCEPT !.result = "IndexOutOfBoundsSimple"]
    ELSE assign_internal(c, chip, wb, wb_offset, assign_delta, assign_types, assign_value, leb_params)

\* a loop "for offset in from..to { self.assign(.., offset, ..) }"
RECURSIVE assign_span(_, _, _, _, _, _, _, _)
assign_span(c, chip, wb, from, to, assign_delta, assign_types, assign_value) ==
    IF from >= to \/ c.result # "Ok" THEN c
    ELSE assign_span(assign_checked(c, chip, wb, from, assign_delta, assign_types, assign_value, NoLebParams), chip, wb, from + 1, to, assign_delta, assign_types, assign_value)

\* common.rs 749-771: the rows of the bytes of a LEB number
RECURSIVE markup_leb_rows(_, _, _, _, _, _, _, _, _)
markup_leb_rows(c, chip, wb, wb_offset, assign_delta, assign_types, byte_rel_offset, last_byte_rel_offset, sn) ==
    IF byte_rel_offset > last_byte_rel_offset \/ c.result # "Ok" THEN c
    ELSE markup_leb_rows(assign_checked(c, chip, wb, wb_offset + byte_rel_offset, assign_delta, assign_types, 1,
                                        [is_some |-> TRUE, byte_rel_offset |-> byte_rel_offset,
                                         last_byte_rel_offset |-> last_byte_rel_offset, sn |-> sn]),
                         chip, wb, wb_offset, assign_delta, assign_types, byte_rel_offset + 1, last_byte_rel_offset, sn)

\* common.rs 731-774: c.sn and c.leb_len are the pair returned
markup_leb_section(c, chip, wb, wb_offset, assign_delta, assign_types) ==
    IF c.result # "Ok" THEN c
    ELSE IF ~leb128_compute_sn(wb, wb_offset).is_ok
    THEN [c EXCEPT !.result = "ComputeValueAt"]
    ELSE [markup_leb_rows(c, chip, wb, wb_offset, assign_delta, assign_types, 0,
                          leb128_compute_sn(wb, wb_offset).last_byte_offset - wb_offset,
                          leb128_compute_sn(wb, wb_offset).sn)
            EXCEPT !.sn = leb128_compute_sn(wb, wb_offset).sn,
                   !.leb_len = leb128_compute_sn(wb, wb_offset).last_byte_offset - wb_offset + 1]

(***************************************************************************)
(* The function section body chip (sections/function/body/circuit.rs).     *)
(***************************************************************************)
\* 372-383: the count rows get the item count as reverse item counter
function_count_rows(c, wb, wb_offset, assign_delta) ==
    assign_span(c, "function", wb, wb_offset, wb_offset + c.leb_len, assign_delta, <<"body_item_rev_count">>, c.sn)

\* 384-394
function_q_first(c, wb, wb_offset, assign_delta) ==
    [assign_checked(c, "function", wb, wb_offset, assign_delta, <<"q_first">>, 1, NoLebParams)
        EXCEPT !.offset = wb_offset + c.leb_len, !.rev_count = c.sn]

\* a faulty variant of function_item_rows: the counter of the item's rows
\* is the one before the decrement
function_item_rows_undecremented(c, wb, assign_delta) ==
    IF c.result # "Ok" THEN c
    ELSE [assign_span(c, "function", wb, c.item_start, c.item_start + c.leb_len, assign_delta, <<"body_item_rev_count">>, c.rev_count + 1)
            EXCEPT !.offset = c.item_start + c.leb_len]

\* 396-419 after the type index of the item is marked up
function_item_rows(c, wb, assign_delta) ==
    IF c.result # "Ok" THEN c
    ELSE [assign_span(c, "function", wb, c.item_start, c.item_start + c.leb_len, assign_delta, <<"body_item_rev_count">>, c.rev_count)
            EXCEPT !.offset = c.item_start + c.leb_len]

\* 395-420: the items that are left
RECURSIVE function_items(_, _, _, _)
function_items(c, wb, assign_delta, items_left) ==
    IF items_left = 0 \/ c.result # "Ok" THEN c
    ELSE function_items(
            function_item_rows(
                markup_leb_section([c EXCEPT !.rev_count = @ - 1, !.item_start = c.offset],
                                   "function", wb, c.offset, assign_delta, <<"is_typeidx">>),
                wb, assign_delta),
            wb, assign_delta, items_left - 1)

\* function 421-431, data 1477-1487, table 714-724: the last row laid out
\* is the last row of the body
body_q_last(c, chip, wb, wb_offset, assign_delta) ==
    IF c.result = "Ok" /\ c.offset # wb_offset
    THEN assign_checked(c, chip, wb, c.offset - 1, assign_delta, <<"q_last">>, 1, NoLebParams)
    ELSE c

function_items_of(c, wb, assign_delta) == function_items(c, wb, assign_delta, c.sn)

\* 356-434
function_assign_auto(region, wb, wb_offset, assign_delta) ==
    body_q_last(
        function_items_of(
            function_q_first(
                function_count_rows(
                    markup_leb_section(Started(region, wb_offset), "function", wb, wb_offset, assign_delta, <<"is_items_count">>),
                    wb, wb_offset, assign_delta),
                wb, wb_offset, assign_delta),
            wb, assign_delta),
        "function", wb, wb_offset, assign_delta)

(***************************************************************************)
(* The data section body chip (sections/data/body/circuit.rs).  c.kind is  *)
(* the segment type value of the item being laid out.                      *)
(***************************************************************************)
\* 1054-1083: q_first, the item count and the counter of the count rows
data_count_rows(c, wb, wb_offset, assign_delta) ==
    assign_span(c, "data", wb, wb_offset, wb_offset + c.leb_len, assign_delta, <<"body_item_rev_count">>, c.sn)

\* 1084-1092 is the dynamic indexes chip, which has columns of its own
data_count(region, wb, wb_offset, assign_delta) ==
    data_count_rows(
        markup_leb_section(
            assign_checked(Started(region, wb_offset), "data", wb, wb_offset, assign_delta, <<"q_first">>, 1, NoLebParams),
            "data", wb, wb_offset, assign_delta, <<"is_items_count">>),
        wb, wb_offset, assign_delta)

\* a row marked with one flag and the segment type, as at 1129-1150
data_mark(c, wb, assign_delta, assign_types) ==
    IF c.result # "Ok" THEN c
    ELSE [assign_checked(
              assign_checked(c, "data", wb, c.offset, assign_delta, assign_types, 1, NoLebParams),
              "data", wb, c.offset, assign_delta, <<"mem_segment_type">>, c.kind, NoLebParams)
            EXCEPT !.offset = c.offset + 1]

\* 1098-1124: the type byte of the item
data_segment_type(c, wb, assign_delta) ==
    IF c.result # "Ok" THEN c
    ELSE IF c.offset >= Len(wb) THEN [c EXCEPT !.result = "Panic"]
    ELSE IF wb[c.offset + 1] \notin EnumValues.mem_segment_type
    THEN [c EXCEPT !.result = "InvalidEnumValue"]
    ELSE data_mark([c EXCEPT !.kind = wb[c.offset + 1]], wb, assign_delta,
                   <<"is_mem_segment_type", "is_mem_segment_type_ctx">>)

\* the segment type on the rows of the LEB number just marked up, and the
\* offset moved behind it, as at 1163-1175
data_leb_type_rows(c, wb, assign_delta) ==
    IF c.result # "Ok" THEN c
    ELSE [assign_span(c, "data", wb, c.offset, c.offset + c.leb_len, assign_delta, <<"mem_segment_type">>, c.kind)
            EXCEPT !.offset = c.offset + c.leb_len]

\* a LEB number of the segment with its segment type rows (1152-1175)
data_leb(c, wb, assign_delta, assign_types) ==
    data_leb_type_rows(markup_leb_section(c, "data", wb, c.offset, assign_delta, assign_types), wb, assign_delta)

\* 1208-1218, 1272-1282: the reverse byte index from the last byte of the
\* length to the last byte of the segment
RECURSIVE data_byte_rev_index_rows(_, _, _, _, _)
data_byte_rev_index_rows(c, wb, assign_delta, from, last_offset) ==
    IF from > last_offset \/ c.result # "Ok" THEN c
    ELSE data_byte_rev_index_rows(
            assign_checked(c, "data", wb, from, assign_delta, <<"body_byte_rev_index">>, last_offset - from, NoLebParams),
            wb, assign_delta, from + 1, last_offset)

data_byte_rev_index(c, wb, assign_delta) ==
    IF c.result # "Ok" THEN c
    ELSE data_byte_rev_index_rows(c, wb, assign_delta, c.offset + c.leb_len - 1, c.offset + c.leb_len - 1 + c.sn)

\* the length of an active or passive segment (1197-1231, 1261-1295)
data_len_indexed(c, wb, assign_delta) ==
    data_leb_type_rows(
        data_byte_rev_index(
            markup_leb_section(c, "data", wb, c.offset, assign_delta, <<"is_mem_segment_len", "is_mem_segment_type_ctx">>),
            wb, assign_delta),
        wb, assign_delta)

\* 1233-1258, 1435-1460: the bytes of an active or active-variadic segment;
\* each byte is followed by the segment type on the first leb_len rows of
\* the bytes
RECURSIVE data_bytes_active(_, _, _, _)
data_bytes_active(c, wb, assign_delta, rel_offset) ==
    IF c.result # "Ok" THEN c
    ELSE IF rel_offset >= c.sn THEN [c EXCEPT !.offset = c.offset + c.sn]
    ELSE data_bytes_active(
            assign_span(
                assign_checked(c, "data", wb, c.offset + rel_offset, assign_delta,
                               <<"is_mem_segment_bytes", "is_mem_segment_type_ctx">>, 1, NoLebParams),
                "data", wb, c.offset, c.offset + c.leb_len, assign_delta, <<"mem_segment_type">>, c.kind),
            wb, assign_delta, rel_offset + 1)

\* 1297-1321: the bytes of a passive segment; each byte is followed by the
\* segment type on the first row of the bytes
RECURSIVE data_bytes_passive(_, _, _, _)
data_bytes_passive(c, wb, assign_delta, rel_offset) ==
    IF c.result # "Ok" THEN c
    ELSE IF rel_offset >= c.sn THEN [c EXCEPT !.offset = c.offset + c.sn]
    ELSE data_bytes_passive(
            assign_checked(
                assign_checked(c, "data", wb, c.offset + rel_offset, assign_delta,
                               <<"is_mem_segment_bytes", "is_mem_segment_type_ctx">>, 1, NoLebParams),
                "data", wb, c.offset, assign_delta, <<"mem_segment_type">>, c.kind, NoLebParams),
            wb, assign_delta, rel_offset + 1)

\* 1127-1259
data_segment_active(c, wb, assign_delta) ==
    data_bytes_active(
        data_len_indexed(
            data_mark(
                data_leb(
                    data_mark(c, wb, assign_delta, <<"is_mem_segment_size_opcode", "is_mem_segment_type_ctx">>),
                    wb, assign_delta, <<"is_mem_segment_size", "is_mem_segment_type_ctx">>),
                wb, assign_delta, <<"is_block_end", "is_mem_segment_type_ctx">>),
            wb, assign_delta),
        wb, assign_delta, 0)

\* 1260-1321
data_segment_passive(c, wb, assign_delta) ==
    data_bytes_passive(data_len_indexed(c, wb, assign_delta), wb, assign_delta, 0)

\* 1322-1461: the length has no reverse byte index rows
data_segment_active_variadic(c, wb, assign_delta) ==
    data_bytes_active(
        data_leb(
            data_mark(
                data_leb(
                    data_mark(
                        data_leb(c, wb, assign_delta, <<"is_memidx", "is_mem_segment_type_ctx">>),
                        wb, assign_delta, <<"is_mem_segment_size_opcode", "is_mem_segment_type_ctx">>),
                    wb, assign_delta, <<"is_mem_segment_size", "is_mem_segment_type_ctx">>),
                wb, assign_delta, <<"is_block_end", "is_mem_segment_type_ctx">>),
            wb, assign_delta, <<"is_mem_segment_len", "is_mem_segment_type_ctx">>),
        wb, assign_delta, 0)

\* 1126 match mem_segment_type
data_segment(c, wb, assign_delta) ==
    IF c.result # "Ok" THEN c
    ELSE IF c.kind = 0 THEN data_segment_active(c, wb, assign_delta)
    ELSE IF c.kind = 1 THEN data_segment_passive(c, wb, assign_delta)
    ELSE data_segment_active_variadic(c, wb, assign_delta)

\* 1464-1474: the counter on the rows of the item
data_item_rev_count_rows(c, wb, assign_delta) ==
    assign_span(c, "data", wb, c.item_start, c.offset, assign_delta, <<"body_item_rev_count">>, c.rev_count)

\* 1094-1475: the items that are left
RECURSIVE data_items(_, _, _, _)
data_items(c, wb, assign_delta, items_left) ==
    IF items_left = 0 \/ c.result # "Ok" THEN c
    ELSE data_items(
            data_item_rev_count_rows(
                data_segment(
                    data_segment_type([c EXCEPT !.rev_count = @ - 1, !.item_start = c.offset], wb, assign_delta),
                    wb, assign_delta),
                wb, assign_delta),
            wb, assign_delta, items_left - 1)

data_items_of(c, wb, wb_offset, assign_delta) ==
    IF c.result # "Ok" THEN c
    ELSE data_items([c EXCEPT !.offset = wb_offset + c.leb_len, !.rev_count = c.sn], wb, assign_delta, c.sn)

\* 1046-1491
data_assign_auto(region, wb, wb_offset, assign_delta) ==
    body_q_last(data_items_of(data_count(region, wb, wb_offset, assign_delta), wb, wb_offset, assign_delta),
                "data", wb, wb_offset, assign_delta)

(***************************************************************************)
(* The table section body chip (sections/table/body/circuit.rs).  c.kind   *)
(* is the limit type value and c.aux the limit_min of the table being      *)
(* laid out.                                                               *)
(***************************************************************************)
\* 594-612: the count of the tables and q_first
table_count(region, wb, wb_offset, assign_delta) ==
    assign_checked(
        markup_leb_section(Started(region, wb_offset), "table", wb, wb_offset, assign_delta, <<"is_reference_type_count">>),
        "table", wb, wb_offset, assign_delta, <<"q_first">>, 1, NoLebParams)

\* 612-632: one reference type byte (624-631 is the dynamic indexes chip,
\* which has columns of its own)
table_reference_type(c, wb, wb_offset, assign_delta) ==
    IF c.result # "Ok" THEN c
    ELSE [assign_checked(c, "table", wb, wb_offset + c.leb_len, assign_delta, <<"is_reference_type">>, 1, NoLebParams)
            EXCEPT !.offset = wb_offset + c.leb_len + 1]

\* 640-658 once the limit type byte is read
table_limit_type_rows(c, wb, assign_delta) ==
    [assign_checked(
        assign_checked(c, "table", wb, c.offset, assign_delta, <<"is_limit_type", "is_limit_type_ctx">>, 1, NoLebParams),
        "table", wb, c.offset, assign_delta, <<"limit_type">>, c.kind, NoLebParams)
       EXCEPT !.offset = c.offset + 1]

\* 634-658: indexing the bytes past their end panics
table_limit_type(c, wb, assign_delta) ==
    IF c.result # "Ok" THEN c
    ELSE IF c.offset >= Len(wb) THEN [c EXCEPT !.result = "Panic"]
    ELSE IF wb[c.offset + 1] \notin EnumValues.limit_type
    THEN [c EXCEPT !.result = "InvalidEnumValue"]
    ELSE table_limit_type_rows([c EXCEPT !.kind = wb[c.offset + 1]], wb, assign_delta)

\* 668-678, 690-700: the limit type on the rows of the LEB number just
\* marked up
table_leb_type_rows(c, wb, assign_delta) ==
    IF c.result # "Ok" THEN c
    ELSE assign_span(c, "table", wb, c.offset, c.offset + c.leb_len, assign_delta, <<"limit_type">>, c.kind)

\* 660-679
table_limit_min_end(c) ==
    IF c.result # "Ok" THEN c
    ELSE [c EXCEPT !.offset = c.offset + c.leb_len, !.aux = c.sn]

table_limit_min(c, wb, assign_delta) ==
    table_limit_min_end(
        table_leb_type_rows(
            markup_leb_section(c, "table", wb, c.offset, assign_delta, <<"is_limit_min", "is_limit_type_ctx">>),
            wb, assign_delta))

\* 701-711: the LtChip gets limit_min and limit_max at the first row of
\* limit_max; its cell is_lt is their comparison
table_limit_max_lt(c, assign_delta) ==
    IF c.result # "Ok" THEN c
    ELSE IF c.offset + assign_delta + 1 \notin DOMAIN c.region
    THEN [c EXCEPT !.result = "FatalAssignExternalChip"]
    ELSE [c EXCEPT !.region[c.offset + assign_delta + 1].lt_chip_lt = b2n(c.aux < c.sn),
                   !.offset = c.offset + c.leb_len]

\* 681-712
table_limit_max(c, wb, assign_delta) ==
    IF c.result # "Ok" \/ c.kind # 1 THEN c
    ELSE table_limit_max_lt(
            table_leb_type_rows(
                markup_leb_section(c, "table", wb, c.offset, assign_delta, <<"is_limit_max", "is_limit_type_ctx">>),
                wb, assign_delta),
            assign_delta)

\* 586-727: one call lays out a count and one table
table_assign_auto(region, wb, wb_offset, assign_delta) ==
    body_q_last(
        table_limit_max(
            table_limit_min(
                table_limit_type(
                    table_reference_type(table_count(region, wb, wb_offset, assign_delta), wb, wb_offset, assign_delta),
                    wb, assign_delta),
                wb, assign_delta),
            wb, assign_delta),
        "table", wb, wb_offset, assign_delta)

(***************************************************************************)
(* The gates of the section body chips, as the polynomials of a row.       *)
(***************************************************************************)
\* gadgets: or::expr of two boolean expressions
or_expr(a, b) == 1 - (1 - a) * (1 - b)

\* common.rs 570-586
get_selector_expr_enriched_with_error_processing(region, r, error_processing_enabled) ==
    Cell(region, r, "q_enable")
        * (IF error_processing_enabled THEN 1 - Cell(region, r, "error_code") ELSE 1)

\* common.rs 234-302, "count prefixed items gate"; the four expressions
\* are the values at row r of the closures the chip gives
configure_count_prefixed_items_checks(region, r, is_count_prefix, is_body, is_next_item, is_last_item) ==
    <<or_expr(is_count_prefix, is_body) * (is_next_item * (1 - is_next_item)),
      or_expr(is_count_prefix, is_body) * (is_count_prefix * (1 - is_count_prefix)),
      or_expr(is_count_prefix, is_body) * (is_last_item * (1 - is_last_item)),
      or_expr(is_count_prefix, is_body) * (is_body * (1 - is_body)),
      \* 253-262
      or_expr(is_count_prefix, is_body) * (is_count_prefix
          * (Cell(region, r, "body_item_rev_count") - Cell(region, r, "sn"))),
      \* 263-273
      or_expr(is_count_prefix, is_body) * (is_next_item
          * ((Cell(region, r - 1, "body_item_rev_count") - 1) - Cell(region, r, "body_item_rev_count"))),
      \* 274-287
      or_expr(is_count_prefix, is_body) * ((is_body * (1 - is_next_item))
          * (Cell(region, r - 1, "body_item_rev_count") - Cell(region, r, "body_item_rev_count"))),
      \* 288-296
      or_expr(is_count_prefix, is_body) * (is_last_item * Cell(region, r, "body_item_rev_count"))>>

\* sections/function/body/circuit.rs 219-243
function_count_prefixed_items(region, r, error_processing_enabled) ==
    configure_count_prefixed_items_checks(region, r,
        Cell(region, r, "is_items_count"),
        get_selector_expr_enriched_with_error_processing(region, r, error_processing_enabled)
            * (1 - Cell(region, r, "is_items_count")),
        Cell(region, r, "is_typeidx") * Cell(region, r, "leb_is_first_byte"),
        Cell(region, r, "q_last"))

\* sections/data/body/circuit.rs 469-487
data_count_prefixed_items(region, r, error_processing_enabled) ==
    configure_count_prefixed_items_checks(region, r,
        Cell(region, r, "is_items_count"),
        get_selector_expr_enriched_with_error_processing(region, r, error_processing_enabled)
            * (1 - Cell(region, r, "is_items_count")),
        Cell(region, r, "is_mem_segment_type"),
        Cell(region, r, "q_last"))

\* common.rs 183-219, "len prefixed body gate"
configure_len_prefixed_bytes_span_checks(region, r, is_body, is_len_prefix, is_last_item) ==
    <<or_expr(is_len_prefix, is_body) * (is_len_prefix * (1 - is_len_prefix)),
      or_expr(is_len_prefix, is_body) * (is_last_item * (1 - is_last_item)),
      \* 195-201
      or_expr(is_len_prefix, is_body) * (is_len_prefix
          * (Cell(region, r, "body_byte_rev_index") - Cell(region, r, "sn"))),
      \* 202-210
      or_expr(is_len_prefix, is_body) * (is_body
          * ((Cell(region, r - 1, "body_byte_rev_index") - 1) - Cell(region, r, "body_byte_rev_index"))),
      \* 211-216
      or_expr(is_len_prefix, is_body) * (is_last_item * Cell(region, r, "body_byte_rev_index"))>>

\* sections/data/body/circuit.rs 439-467
data_len_prefixed_bytes_span(region, r) ==
    configure_len_prefixed_bytes_span_checks(region, r,
        Cell(region, r, "is_mem_segment_bytes"),
        (1 - Cell(region, r, "q_last")) * Cell(region, r, "is_mem_segment_len")
            * Cell(region, r + 1, "is_mem_segment_type"),
        or_expr(Cell(region, r, "q_last"),
                Cell(region, r, "is_mem_segment_bytes") * Cell(region, r + 1, "is_mem_segment_type")))

\* sections/data/body/circuit.rs 579-603, the constraints of the
\* "WasmDataSectionBody gate" on the segment type
data_mem_segment_type_gate(region, r, error_processing_enabled) ==
    <<\* 580-589
      get_selector_expr_enriched_with_error_processing(region, r, error_processing_enabled)
          * (Cell(region, r, "is_mem_segment_type")
                * (Cell(region, r, "mem_segment_type") - Cell(region, r, "byte"))),
      \* 590-603
      get_selector_expr_enriched_with_error_processing(region, r, error_processing_enabled)
          * ((Cell(region, r, "is_mem_segment_type_ctx") * Cell(region, r - 1, "is_mem_segment_type_ctx"))
                * (Cell(region, r - 1, "mem_segment_type") - Cell(region, r, "mem_segment_type")))>>

\* common.rs 60-150, configure_constraints_for_q_first_and_q_last, with
\* the values at row r of the OR of the selectors of the first and of the
\* last row
configure_constraints_for_q_first_and_q_last(region, r, q_first_selectors, q_last_selectors) ==
    <<Cell(region, r, "q_first") * (1 - Cell(region, r, "q_first")),
      Cell(region, r, "q_last") * (1 - Cell(region, r, "q_last")),
      Cell(region, r, "q_first") * (q_first_selectors - 1),
      Cell(region, r, "q_last") * (q_last_selectors - 1),
      or_expr(Cell(region, r, "q_first"), Cell(region, r, "q_last")) * (Cell(region, r, "q_enable") - 1),
      (Cell(region, r, "q_first") * (1 - Cell(region, r, "q_last"))) * Cell(region, r + 1, "q_first"),
      (Cell(region, r, "q_last") * (1 - Cell(region, r, "q_first"))) * Cell(region, r - 1, "q_last"),
      ((1 - Cell(region, r, "q_first")) * (1 - Cell(region, r, "q_last"))) * Cell(region, r + 1, "q_first"),
      ((1 - Cell(region, r, "q_first")) * (1 - Cell(region, r, "q_last"))) * Cell(region, r - 1, "q_last")>>

\* common.rs 153-172 with is_check_next: the sum of the columns at the
\* next row is 1 under the condition
RECURSIVE next_row_sum(_, _, _)
next_row_sum(region, r, columns_to_check) ==
    IF columns_to_check = <<>> THEN 0
    ELSE Cell(region, r + 1, columns_to_check[1]) + next_row_sum(region, r, Tail(columns_to_check))

configure_transition_check(region, r, condition, columns_to_check) ==
    condition * (next_row_sum(region, r, columns_to_check) - 1)

\* the binary number chip of the limit type: value_equals at row r
limit_type_value_equals(region, r, value) == b2n(Cell(region, r, "limit_type_chip") = value)

\* the polynomials of a gate, each multiplied by the selector (cb.gate)
Gated(selector, polys) == [i \in DOMAIN polys |-> selector * polys[i]]

\* sections/table/body/circuit.rs 323-565, "WasmTableSectionBody gate"
table_body_constraints(region, r) ==
    <<\* 361-380
      Cell(region, r, "is_reference_type_count") * (1 - Cell(region, r, "is_reference_type_count")),
      Cell(region, r, "is_reference_type") * (1 - Cell(region, r, "is_reference_type")),
      Cell(region, r, "is_limit_type") * (1 - Cell(region, r, "is_limit_type")),
      Cell(region, r, "is_limit_min") * (1 - Cell(region, r, "is_limit_min")),
      Cell(region, r, "is_limit_max") * (1 - Cell(region, r, "is_limit_max")),
      Cell(region, r, "is_limit_type_ctx") * (1 - Cell(region, r, "is_limit_type_ctx")),
      \* 392-400
      (Cell(region, r, "is_reference_type_count") + Cell(region, r, "is_reference_type")
          + Cell(region, r, "is_limit_type") + Cell(region, r, "is_limit_min")
          + Cell(region, r, "is_limit_max")) - 1,
      \* 402-416
      (1 - (1 - Cell(region, r, "is_reference_type_count")) * (1 - Cell(region, r, "is_limit_min"))
              * (1 - Cell(region, r, "is_limit_max")))
          * (Cell(region, r, "leb_q_enable") - 1),
      \* 418-424, REF_TYPE_VALUES of types.rs 138-143
      Cell(region, r, "is_reference_type")
          * ((Cell(region, r, "byte") - 112) * (Cell(region, r, "byte") - 113)),
      \* 426-432
      Cell(region, r, "is_limit_type") * ((Cell(region, r, "byte") - 0) * (Cell(region, r, "byte") - 1)),
      \* 433-437
      (Cell(region, r, "is_limit_type") + Cell(region, r, "is_limit_min") + Cell(region, r, "is_limit_max"))
          - Cell(region, r, "is_limit_type_ctx"),
      \* 438-444
      Cell(region, r, "is_limit_type") * (Cell(region, r, "limit_type") - Cell(region, r, "byte")),
      \* 445-453
      Cell(region, r, "is_limit_type_ctx")
          * (Cell(region, r - 1, "is_limit_type_ctx")
                * (Cell(region, r, "limit_type") - Cell(region, r - 1, "limit_type"))),
      \* 457-473
      configure_transition_check(region, r,
          (1 - Cell(region, r, "q_last")) * Cell(region, r, "is_reference_type_count"),
          <<"is_reference_type_count", "is_reference_type">>),
      configure_transition_check(region, r,
          (1 - Cell(region, r, "q_last")) * Cell(region, r, "is_reference_type_count")
              * Cell(region, r, "leb_is_last_byte"),
          <<"is_reference_type">>),
      \* 474-489
      configure_transition_check(region, r,
          (1 - Cell(region, r, "q_last")) * Cell(region, r, "is_reference_type"), <<"is_limit_type">>),
      configure_transition_check(region, r,
          (1 - Cell(region, r, "q_last")) * Cell(region, r, "is_limit_type"), <<"is_limit_min">>),
      \* 490-501
      configure_transition_check(region, r,
          (1 - Cell(region, r, "q_last")) * limit_type_value_equals(region, r, 0)
              * Cell(region, r, "is_limit_min"),
          <<"is_limit_min">>),
      \* 502-515
      (limit_type_value_equals(region, r, 0) * Cell(region, r, "is_limit_min")
              * Cell(region, r, "leb_is_last_byte"))
          * (Cell(region, r, "q_last") - 1),
      \* 516-540
      configure_transition_check(region, r,
          (1 - Cell(region, r, "q_last")) * limit_type_value_equals(region, r, 1)
              * Cell(region, r, "is_limit_min"),
          <<"is_limit_min", "is_limit_max">>),
      configure_transition_check(region, r,
          (1 - Cell(region, r, "q_last")) * limit_type_value_equals(region, r, 1)
              * Cell(region, r, "is_limit_min") * Cell(region, r, "leb_is_last_byte"),
          <<"is_limit_max">>),
      \* 541-548
      configure_transition_check(region, r,
          (1 - Cell(region, r, "q_last")) * Cell(region, r, "is_limit_max"), <<"is_limit_max">>),
      \* 549-562
      (limit_type_value_equals(region, r, 1) * Cell(region, r, "is_limit_max")
              * Cell(region, r, "leb_is_last_byte"))
          * (Cell(region, r, "q_last") - 1)>>

\* 323-565 with the constraints of the first and last row (382-390) and
\* the selector (564)
table_body_gate(region, r, error_processing_enabled) ==
    Gated(get_selector_expr_enriched_with_error_processing(region, r, error_processing_enabled),
          table_body_constraints(region, r)
             \o configure_constraints_for_q_first_and_q_last(region, r,
                    Cell(region, r, "is_reference_type_count"),
                    or_expr(Cell(region, r, "is_limit_min"), Cell(region, r, "is_limit_max"))))

\* common.rs 418-443, "limit_type params are valid" (the "limit_type
\* structure gate" of 365-417 repeats 426-453 of the table body gate
\* under q_enable), with the LtChip's own
\* constraint that is_lt is the comparison of the numbers of the previous
\* and of this row
limit_type_params_gate(region, r) ==
    <<(Cell(region, r, "q_enable") * limit_type_value_equals(region, r, 1)
          * Cell(region, r - 1, "is_limit_min") * Cell(region, r, "is_limit_max"))
        * ((Cell(region, r, "lt_chip_lt") - 1) * (Cell(region, r, "sn") - Cell(region, r - 1, "sn"))),
      (Cell(region, r, "q_enable") * limit_type_value_equals(region, r, 1)
          * Cell(region, r - 1, "is_limit_min") * Cell(region, r, "is_limit_max"))
        * (Cell(region, r, "lt_chip_lt") - b2n(Cell(region, r - 1, "sn") < Cell(region, r, "sn")))>>

(***************************************************************************)
(* The section bodies laid out: a count and that many items.               *)
(***************************************************************************)
MaxItems == 2
MaxSegmentLen == 2

\* an item count as one LEB byte, or as two with a zero high byte
Counts(n) == {<<n>>, <<128 + n, 0>>}

RECURSIVE ItemSeqs(_, _)
ItemSeqs(Items, n) ==
    IF n = 0 THEN {<<>>}
    ELSE {item \o rest : item \in Items, rest \in ItemSeqs(Items, n - 1)}

Bodies(Items) ==
    UNION {{count \o items : count \in Counts(n), items \in ItemSeqs(Items, n)} : n \in 0..MaxItems}

\* type indexes of one and of two LEB bytes
FunctionBodies == Bodies({<<0>>, <<5>>, <<128, 1>>})

\* the bytes of a segment: 0xAA ..
SegmentBytes == SeqsUpTo({170}, MaxSegmentLen)

\* active: type 0, i32.const 0, end, bytes; passive: type 1, bytes;
\* active-variadic: type 2, memory 0, i32.const 0, end, bytes
Segments ==
    {<<0, 65, 0, 11, Len(bytes)>> \o bytes : bytes \in SegmentBytes}
    \cup {<<1, Len(bytes)>> \o bytes : bytes \in SegmentBytes}
    \cup {<<2, 0, 65, 0, 11, Len(bytes)>> \o bytes : bytes \in SegmentBytes}

DataBodies == Bodies(Segments)

\* limits: a minimum, or a minimum and a maximum not below it, each of
\* one or two LEB bytes
LimitMins == {<<1>>, <<128, 1>>}
LimitMaxs == {<<2>>, <<128, 1>>}
Limits ==
    {<<0>> \o min : min \in LimitMins}
    \cup {<<1>> \o lim[1] \o lim[2] :
              lim \in {l \in LimitMins \X LimitMaxs :
                          leb128_sn(l[1], 0, Len(l[1]) - 1) <= leb128_sn(l[2], 0, Len(l[2]) - 1)}}

\* a table: the reference type funcref (0x70) or externref (0x6F) and
\* its limits
Tables == {<<reference_type>> \o limit : reference_type \in {112, 111}, limit \in Limits}

TableBodies == Bodies(Tables)

BodyInit ==
    /\ BusIdle
    /\ \E chip \in {"function", "data", "table"} :
         \E wb \in (CASE chip = "function" -> FunctionBodies
                      [] chip = "data" -> DataBodies
                      [] chip = "table" -> TableBodies) :
            circuit = [chip |-> chip, wb |-> wb, region |-> BlankRegion(wb),
                       fn |-> "none", result |-> "none", offset |-> 0]

Assigned(c, fn) ==
    [circuit EXCEPT !.region = c.region, !.fn = fn, !.result = c.result, !.offset = c.offset]

FunctionAssignAuto ==
    /\ circuit.chip = "function"
    /\ circuit.fn = "none"
    /\ UNCHANGED bus
    /\ \E c \in {function_assign_auto(circuit.region, circuit.wb, 0, 0)} :
         circuit' = Assigned(c, "function_assign_auto")

DataAssignAuto ==
    /\ circuit.chip = "data"
    /\ circuit.fn = "none"
    /\ UNCHANGED bus
    /\ \E c \in {data_assign_auto(circuit.region, circuit.wb, 0, 0)} :
         circuit' = Assigned(c, "data_assign_auto")

\* one turn of the loop of sections/table/body/tests.rs 92-104: assign_auto
\* from the offset the call before returned, while it is inside the
\* bytecode; an error ends the loop (unwrap)
TableAssignAuto ==
    /\ circuit.chip = "table"
    /\ circuit.fn = "none" \/ circuit.result = "Ok"
    /\ circuit.offset < Len(circuit.wb)
    /\ UNCHANGED bus
    /\ \E c \in {table_assign_auto(circuit.region, circuit.wb, circuit.offset, 0)} :
         circuit' = Assigned(c, "table_assign_auto")

BodyNext ==
    \/ FunctionAssignAuto
    \/ DataAssignAuto
    \/ TableAssignAuto

BodySpec == BodyInit /\ [][BodyNext]_vars

(***************************************************************************)
(* Properties.                                                             *)
(***************************************************************************)
Ops == 1..Len(container)

\* the operations the last top-level function appended
Appended == {k \in Ops : k > last.from}

\* the value a key holds before operation k: the value of the most recent
\* earlier operation on the key, or the initial value if there is none
Earlier(k) == {j \in 1..(k - 1) : Key(container[j]) = Key(container[k])}
Latest(k) == CHOOSE j \in Earlier(k) : \A i \in Earlier(k) : i <= j
ValueBefore(k) ==
    IF Earlier(k) = {} THEN SdbValue(InitSdb, container[k])
    ELSE container[Latest(k)].value

\* C1: the k-th operation appended to the Operation Container carries
\* rw-counter k: the counters start at 1, increase strictly in append order
\* and leave no gap, and the next counter to hand out follows the last one.
RwcGapless ==
    /\ \A k \in Ops : container[k].rwc = k
    /\ rwc = Len(container) + 1

\* a block whose transactions all ended, with a reversion in its log
RwcGaplessWitness ==
    /\ pc = "done"
    /\ block_ctx.txs = MaxTxs
    /\ \E k \in Ops : container[k].reversion
    /\ \E k \in Ops : container[k].tag = "CallContext" /\ container[k].id = k + 1

\* C2: every write of an account field, storage slot, access-list entry or
\* the refund counter, whoever appended it, carries as previous value the
\* value of the most recent earlier operation on its key, or the initial
\* value of the key when no earlier operation touched it.
WriteValuePrev ==
    \A k \in Ops :
        (container[k].rw = "WRITE" /\ HasPrev(container[k]))
            => container[k].value_prev = ValueBefore(k)

\* C3: once a failing call has been reverted, every account field and
\* storage slot of the State Database has the value it had when the call
\* started; a transaction whose root call fails reaches its end-tx step
\* with the accounts as the root call found them.
ReversionRoundTrip ==
    /\ last.undone.valid => AccountView(sdb) = last.undone.snap
    /\ (pc = "end" /\ ~tx.root.is_success) => AccountView(sdb) = tx.snap

\* a failing root call is reverted after a SELFDESTRUCT of a callee that
\* succeeded: the code hash of the destructed contract is restored
ReversionRoundTripWitness ==
    /\ last.undone.valid
    /\ last.undone.n >= 5
    /\ pc = "end"
    /\ ~tx.root.is_success
    /\ \E k \in Appended :
          /\ container[k].reversion
          /\ container[k].tag = "Account"
          /\ container[k].field = "CodeHash"
          /\ container[k].value = CodeHash.code

Writes(j, k) ==
    {i \in (j + 1)..(k - 1) :
        container[i].rw = "WRITE" /\ Key(container[i]) = Key(container[k])}

ReadIdempotence ==
    /\ \A k \in Ops :
          container[k].rw = "READ" =>
            /\ container[k].value = container[k].value_prev
            /\ \A j \in Earlier(k) :
                  (container[j].rw = "READ" /\ Writes(j, k) = {})
                      => container[j].value = container[k].value
    /\ (last.fn = "end_tx" /\ last.result = "Ok") =>
          \A k \in Appended :
              container[k].tag = "TxRefund" =>
                /\ container[k].rw = "READ"
                /\ container[k].value = container[k].value_prev
                /\ sdb.refund = container[k].value
                /\ ValueBefore(k) = container[k].value

\* begin-tx has read the code hash of a callee that an earlier end-tx
\* credited as coinbase, after an earlier read of the same key
ReadIdempotenceWitness ==
    /\ last.fn = "begin_tx"
    /\ last.result = "Ok"
    /\ \E k \in Appended : \E j \in Earlier(k) :
          /\ container[k].rw = "READ" /\ container[j].rw = "READ"
          /\ container[k].tag = "Account" /\ container[k].field = "CodeHash"
          /\ container[k].addr = block_ctx.coinbase
          /\ Writes(j, k) = {}

\* C7: a step classified with an error that has a registered handler is
\* produced by that handler alone (the operations, the call stack and the
\* State Database after the step are the handler's, as is the number of
\* steps), and its first step carries the classified error whatever tag the
\* handler set.
HandledBy ==
    (last'.fn = "step" /\ last'.path = "handled" /\ last'.result = "Ok") =>
        LET fn == fn_gen_error_state_associated_ops(last'.op, last'.error)
            r == RunHandler(fn, State, tx.id, last'.error,
                            [NoChoice EXCEPT !.tag = last'.tag])
        IN  /\ last'.handler = fn
            /\ fn \notin {"None", "unreachable"}
            /\ container' = r.s.container
            /\ calls' = r.s.calls
            /\ sdb' = r.s.sdb
            /\ Len(last'.steps) = Len(r.steps)
            /\ last'.steps[1].error = last'.error

HandledErrorStep == [][HandledBy]_vars

\* handled steps whose handler set no tag, and whose handler set another
\* tag than the classified error
HandledErrorStepWitness ==
    /\ last.fn = "step"
    /\ last.path = "handled"
    /\ last.result = "Ok"
    /\ last.tag = "StackUnderflow"
    /\ last.error = "OutOfGas(Constant)"
    /\ last.steps[1].error = "OutOfGas(Constant)"

\* C8: a step classified with an error that has no registered handler
\* takes the unhandled route; there a call or create opcode whose error is
\* not out of gas on create gets a frame parsed and pushed one level deeper
\* and the return handling runs without restoring (the pushed frame is
\* popped again); any other step pushes no frame and the return handling
\* runs with restoring (the current call is popped); either way the step
\* returned is the one step tagged with the error.
UnhandledErrorStep ==
    /\ (last.fn = "step" /\ last.error # "None" /\ last.fault = "none"
           /\ fn_gen_error_state_associated_ops(last.op, last.error) = "None")
           => last.path = "unhandled" /\ last.result = "Ok"
    /\ (last.fn = "step" /\ last.path = "unhandled" /\ last.result = "Ok") =>
          /\ fn_gen_error_state_associated_ops(last.op, last.error) = "None"
          /\ last.steps = <<ExecStep(last.error)>>
          /\ IF is_call_or_create(last.op) /\ last.error # "OutOfGas(Create)"
             THEN /\ last.pushed = last.depth + 1
                  /\ ~last.need_restore
                  /\ Len(calls) = last.frames
             ELSE /\ last.pushed = 0
                  /\ last.need_restore
                  /\ Len(calls) = last.frames - 1

\* an unhandled error at a call opcode, whose frame was pushed and popped
UnhandledErrorStepWitness ==
    /\ last.fn = "step"
    /\ last.path = "unhandled"
    /\ last.result = "Ok"
    /\ last.op = "CALL"
    /\ last.pushed = 2
    /\ last.undone.valid

\* C9: an error raised while a step is processed, by get_step_err, by a
\* primitive or by a handler, is the result of the per-step function.
ErrorsPropagate ==
    last.fn = "step" =>
        /\ last.raised => last.result = "GetStepErrError"
        /\ last.fault = "new_step" => last.result = "NewStepError"
        /\ last.fault = "handler" => last.result = "HandlerError"
        /\ last.fault = "parse_call" => last.result = "ParseCallError"
        /\ last.fault = "handle_return" => last.result = "HandleReturnError"

\* C10: a Depth(Call) error is handled by the with-value call handler at
\* CALL and CALLCODE and by the without-value call handler at DELEGATECALL
\* and STATICCALL; Depth(Create) and Depth(Create2) are handled by the
\* CREATE and the CREATE2 handler; the steps taken use the handler so named.
DepthHandlerSelection ==
    /\ \A op \in {"CALL", "CALLCODE"} :
          fn_gen_error_state_associated_ops(op, "Depth(Call)") = "CallOpcode<true>"
    /\ \A op \in {"DELEGATECALL", "STATICCALL"} :
          fn_gen_error_state_associated_ops(op, "Depth(Call)") = "CallOpcode<false>"
    /\ \A op \in StepOpcodes \cup CallOpcodes :
          /\ fn_gen_error_state_associated_ops(op, "Depth(Create)") = "Create<false>"
          /\ fn_gen_error_state_associated_ops(op, "Depth(Create2)") = "Create<true>"
    /\ (last.fn = "step" /\ last.error = "Depth(Call)" /\ last.result = "Ok") =>
          last.handler = IF last.op \in {"CALL", "CALLCODE"}
                         THEN "CallOpcode<true>" ELSE "CallOpcode<false>"
    /\ (last.fn = "step" /\ last.error = "Depth(Create)" /\ last.result = "Ok") =>
          last.handler = "Create<false>"
    /\ (last.fn = "step" /\ last.error = "Depth(Create2)" /\ last.result = "Ok") =>
          last.handler = "Create<true>"

\* a STATICCALL at the depth limit, handled by the without-value handler
DepthHandlerSelectionWitness ==
    /\ last.fn = "step"
    /\ last.op = "STATICCALL"
    /\ last.error = "Depth(Call)"
    /\ last.handler = "CallOpcode<false>"
    /\ last.result = "Ok"

\* C11: every opcode id has a handler; an opcode that has no arm of its own
\* in the dispatch table (CREATE and CREATE2 among them) and JUMPDEST get
\* the Dummy handler; a step the Dummy handler produced consists of one step
\* without an error, appended no operation to the Operation Container,
\* handed out no rw-counter and left the call stack as it was.
DummyDispatch ==
    /\ \A op \in OpcodeIds : fn_gen_associated_ops(op) \in OpcodeHandlers
    /\ \A op \in NoArmOpcodes \cup {"JUMPDEST"} : fn_gen_associated_ops(op) = "Dummy"
    /\ (last.fn = "step" /\ last.path = "normal" /\ last.result = "Ok"
           /\ last.op \in {"CREATE", "CREATE2", "JUMPDEST"}) =>
          /\ last.handler = "Dummy"
          /\ last.steps = <<ExecStep("None")>>
          /\ Appended = {}
          /\ Len(container) = last.from
          /\ rwc = last.from + 1
          /\ last.pushed = 0
          /\ Len(calls) = last.frames
          /\ ~last.undone.valid

\* a CREATE step without an error, after operations were logged
DummyDispatchWitness ==
    /\ last.fn = "step"
    /\ last.op = "CREATE"
    /\ last.path = "normal"
    /\ last.handler = "Dummy"
    /\ last.result = "Ok"
    /\ last.from > 0

\* the operations of the step the last function built: those it appended,
\* less the compensating writes of a reversion, which belong to no step
StepOps == {k \in Appended : ~container[k].reversion}

\* the place of a call-context field among the fields of the callee frame
FrameFields ==
    <<"Depth", "CallerAddress", "CalleeAddress", "CallDataOffset",
      "CallDataLength", "Value", "IsStatic", "LastCalleeId",
      "LastCalleeReturnDataOffset", "LastCalleeReturnDataLength", "IsRoot",
      "IsCreate", "CodeHash">>
FrameFieldIndex(f) ==
    IF \E i \in 1..Len(FrameFields) : FrameFields[i] = f
    THEN CHOOSE i \in 1..Len(FrameFields) : FrameFields[i] = f
    ELSE 0

\* the part of the begin-tx step an operation belongs to, by what it is
BeginTxPhase(o) ==
    CASE o.tag = "CallContext" /\ FrameFieldIndex(o.field) = 0 -> 1
      [] o.tag = "Account" /\ o.field = "Nonce"
            /\ o.addr = tx.root.caller_address -> 2
      [] o.tag = "TxAccessListAccount" -> 3
      [] o.tag = "Account" /\ o.field = "CodeHash" /\ o.rw = "READ" -> 4
      [] o.tag = "Account" /\ o.field \in {"Balance", "CodeHash"} -> 5
      [] o.tag = "Account" /\ o.field = "Nonce" -> 6
      [] o.tag = "CallContext" -> 6
      [] o.tag = "Memory" -> 7
      [] o.tag = "Global" -> 8
      [] o.tag = "Stack" -> 9
      [] OTHER -> 0

\* C12: the operations of a begin-tx step come in this order: the
\* call-context writes TxId, RwCounterEndOfReversion, IsPersistent,
\* IsSuccess; the caller's nonce write; the access-list writes of caller,
\* then callee; the callee's code-hash read (present exactly for a call to
\* an address that is no precompile); the transfer's account writes; the
\* call-context writes of the callee frame in the order of the frame's
\* fields; the memory writes by ascending address; the global writes; the
\* stack writes that zero the locals.
BeginTxOrder ==
    (last.fn = "begin_tx" /\ last.result = "Ok") =>
        LET f == last.from
            o(k) == container[f + k]
        IN  /\ StepOps = {k \in Appended : k <= f + Cardinality(StepOps)}
            /\ Cardinality(StepOps) >= 7
            /\ \A k \in 1..4 : o(k).tag = "CallContext" /\ o(k).rw = "WRITE"
                                /\ o(k).id = tx.root.call_id
            /\ <<o(1).field, o(2).field, o(3).field, o(4).field>>
                 = <<"TxId", "RwCounterEndOfReversion", "IsPersistent", "IsSuccess">>
            /\ BeginTxPhase(o(5)) = 2 /\ o(5).rw = "WRITE"
            /\ o(6).tag = "TxAccessListAccount" /\ o(6).addr = tx.root.caller_address
            /\ o(7).tag = "TxAccessListAccount" /\ o(7).addr = tx.root.address
            /\ \A k \in StepOps : BeginTxPhase(container[k]) # 0
            /\ \A j, k \in StepOps :
                  j < k =>
                    /\ BeginTxPhase(container[j]) <= BeginTxPhase(container[k])
                    /\ (container[j].tag = "CallContext" /\ container[k].tag = "CallContext"
                           /\ BeginTxPhase(container[j]) = 6) =>
                          FrameFieldIndex(container[j].field)
                              < FrameFieldIndex(container[k].field)
                    /\ (container[j].tag = "Memory" /\ container[k].tag = "Memory") =>
                          container[j].addr < container[k].addr
            /\ Cardinality({k \in StepOps : BeginTxPhase(container[k]) = 3}) = 2
            /\ Cardinality({k \in StepOps : BeginTxPhase(container[k]) = 4})
                 = b2n(~is_precompiled(tx.root.address) /\ ~tx.root.is_create)
            /\ Cardinality({k \in StepOps : container[k].tag = "CallContext"})
                 \in {4, 4 + Len(FrameFields)}

\* the begin-tx step of a creation transaction whose module has global
\* memory, globals and locals
BeginTxOrderWitness ==
    /\ last.fn = "begin_tx"
    /\ last.result = "Ok"
    /\ tx.is_create
    /\ \E k \in StepOps : container[k].tag = "Memory" /\ container[k].addr = 1
    /\ \E k \in StepOps : container[k].tag = "Global"
    /\ \E k \in StepOps : container[k].tag = "Stack"
    /\ \E k \in StepOps : BeginTxPhase(container[k]) = 6 /\ container[k].tag = "Account"

\* the caller's nonce operations of the step
CallerNonceOps ==
    {k \in StepOps : /\ container[k].tag = "Account"
                     /\ container[k].field = "Nonce"
                     /\ container[k].addr = tx.root.caller_address}

NonceWritten ==
    (last.fn = "begin_tx" /\ last.result = "Ok") =>
        /\ Cardinality(CallerNonceOps) = 1
        /\ \A k \in CallerNonceOps :
              /\ container[k].rw = "WRITE"
              /\ container[k].value_prev = tx.nonce
              /\ container[k].value = container[k].value_prev + 1
              /\ sdb.nonce[tx.root.caller_address] = tx.nonce + 1

NonceGrows == \A a \in Callers : sdb'.nonce[a] >= sdb.nonce[a]

\* C13: begin-tx writes the caller's nonce once, with the transaction's
\* nonce as previous value and the previous value plus one as value; no step
\* of the block processing lowers the nonce a caller has in the State
\* Database.
CallerNonce == []NonceWritten /\ [][NonceGrows]_vars

\* the second transaction of a sender whose nonce in the State Database
\* lagged behind the transaction's, after the first transaction failed
CallerNonceWitness ==
    /\ last.fn = "begin_tx"
    /\ last.result = "Ok"
    /\ tx.id = 2
    /\ tx.nonce = 2
    /\ sdb.nonce[tx.root.caller_address] = 3
    /\ \E k \in Ops : container[k].reversion

\* the receipt operations of the step, and the CumulativeGasUsed that the
\* end-tx step of transaction id wrote (0 when there is none)
ReceiptOps == {k \in StepOps : container[k].tag = "TxReceipt"}
CumulativeWrites(id) ==
    {k \in Ops : /\ container[k].tag = "TxReceipt"
                 /\ container[k].rw = "WRITE"
                 /\ container[k].id = id
                 /\ container[k].field = "CumulativeGasUsed"}
CumulativeWritten(id) ==
    IF CumulativeWrites(id) = {} THEN 0
    ELSE container[CHOOSE k \in CumulativeWrites(id) : TRUE].value

\* C14: an end-tx step writes the receipt fields PostStateOrStatus,
\* LogLength and CumulativeGasUsed of its transaction, in that order; the
\* CumulativeGasUsed written is what the previous transaction's end-tx
\* wrote (nothing for the first) plus the gas limit less the gas left of this
\* transaction, hence the sum over the transactions so far; the write is
\* preceded, after the LogLength write, by a read of the previous
\* transaction's CumulativeGasUsed exactly when the transaction is not the
\* first, and the read carries the value that was written.
EndTxReceipt ==
    (last.fn = "end_tx" /\ last.result = "Ok") =>
        /\ Cardinality(ReceiptOps) = 3 + b2n(tx.id > 1)
        /\ \A id \in 1..tx.id : Cardinality(CumulativeWrites(id)) = 1
        /\ \E p, l, c \in ReceiptOps :
              /\ p < l /\ l < c
              /\ \A k \in {p, l, c} : container[k].rw = "WRITE" /\ container[k].id = tx.id
              /\ container[p].field = "PostStateOrStatus"
              /\ container[l].field = "LogLength"
              /\ container[c].field = "CumulativeGasUsed"
              /\ container[c].value
                   = CumulativeWritten(tx.id - 1) + (tx.gas - tx.gas_left)
              /\ block_ctx.cumulative_gas_used = container[c].value
              /\ \A k \in ReceiptOps \ {p, l, c} :
                    /\ tx.id > 1
                    /\ l < k /\ k < c
                    /\ container[k].rw = "READ"
                    /\ container[k].id = tx.id - 1
                    /\ container[k].field = "CumulativeGasUsed"
                    /\ container[k].value = CumulativeWritten(tx.id - 1)

\* the end-tx step of a second transaction that used another amount of gas
\* than the first
EndTxReceiptWitness ==
    /\ last.fn = "end_tx"
    /\ last.result = "Ok"
    /\ tx.id = 2
    /\ CumulativeWritten(1) > 0
    /\ CumulativeWritten(1) # tx.gas - tx.gas_left
    /\ CumulativeWritten(2) = CumulativeWritten(1) + (tx.gas - tx.gas_left)

\* the call-context writes of the step
ContextWrites ==
    {k \in StepOps : container[k].tag = "CallContext" /\ container[k].rw = "WRITE"}

\* C15: the end-tx step of a transaction that is not the last of its block
\* ends with a call-context write of TxId, the only call-context write of
\* the step, whose value is the transaction's id plus one and whose call id
\* is the one the next root call gets (the rw-counter the next transaction
\* starts with; the begin-tx step of the next transaction finds it as the
\* operation just before its own); the end-tx step of the last transaction
\* has no call-context write.
NextTxIdWrite ==
    /\ (last.fn = "end_tx" /\ last.result = "Ok" /\ ~tx.is_last_tx) =>
          /\ ContextWrites = {Len(container)}
          /\ container[Len(container)].field = "TxId"
          /\ container[Len(container)].value = tx.id + 1
          /\ container[Len(container)].id = rwc
    /\ (last.fn = "end_tx" /\ last.result = "Ok" /\ tx.is_last_tx) =>
          ContextWrites = {}
    /\ (last.fn = "begin_tx" /\ tx.id > 1) =>
          /\ container[last.from].tag = "CallContext"
          /\ container[last.from].rw = "WRITE"
          /\ container[last.from].field = "TxId"
          /\ container[last.from].value = tx.id
          /\ container[last.from].id = tx.root.call_id

\* the begin-tx step of a second transaction, whose root call has the call
\* id that the end-tx step before it wrote the TxId under
NextTxIdWriteWitness ==
    /\ last.fn = "begin_tx"
    /\ last.result = "Ok"
    /\ tx.id = 2
    /\ tx.is_last_tx
    /\ container[last.from].field = "TxId"
    /\ container[last.from].id = tx.root.call_id
    /\ container[last.from].rwc + 1 = tx.root.call_id

\* the fee and the gas used of the running transaction, and the reward its
\* end-tx step pays the coinbase when nothing is refunded
TxFee == tx.gas_price * tx.gas + tx.l1_fee
GasUsed == tx.gas - tx.gas_left
RewardUnrefunded == (tx.gas_price - block_ctx.base_fee) * GasUsed + tx.l1_fee

\* the caller's balance writes of the step
CallerBalanceWrites ==
    {k \in StepOps : /\ container[k].tag = "Account"
                     /\ container[k].field = "Balance"
                     /\ container[k].rw = "WRITE"
                     /\ container[k].addr = tx.root.caller_address}

\* C16: begin-tx charges the caller the fee (gas price times gas limit plus
\* the L1 fee) with its first balance write; when the end-tx step of a
\* transaction whose root call fails is done, the receipt's
\* PostStateOrStatus is 0, the caller's nonce is the transaction's plus one,
\* the caller has paid gas price times gas used plus the L1 fee (nothing is
\* refunded), and every other account field and storage slot is as the root
\* call found it, the coinbase's reward apart.
FailedTxCharged ==
    /\ (last.fn = "begin_tx" /\ last.result = "Ok") =>
          \E k \in CallerBalanceWrites :
              /\ \A j \in CallerBalanceWrites : k <= j
              /\ container[k].value = container[k].value_prev - TxFee
              /\ ~tx.root.is_success =>
                    /\ tx.snap.balance[tx.root.caller_address] = container[k].value
                    /\ tx.snap.nonce[tx.root.caller_address] = tx.nonce + 1
    /\ (last.fn = "end_tx" /\ last.result = "Ok" /\ ~tx.root.is_success) =>
          /\ \E k \in ReceiptOps :
                /\ container[k].rw = "WRITE"
                /\ container[k].id = tx.id
                /\ container[k].field = "PostStateOrStatus"
                /\ container[k].value = 0
          /\ sdb.nonce[tx.root.caller_address] = tx.nonce + 1
          /\ sdb.refund = 0
          /\ \A a \in Addr :
                /\ sdb.nonce[a] = tx.snap.nonce[a]
                /\ account_code_hash(sdb, a) = tx.snap.code_hash[a]
                /\ sdb.storage[a] = tx.snap.storage[a]
                /\ sdb.balance[a] =
                      tx.snap.balance[a]
                      + (IF a = tx.root.caller_address
                         THEN tx.gas_price * tx.gas_left ELSE 0)
                      + (IF a = block_ctx.coinbase THEN RewardUnrefunded ELSE 0)
          /\ sdb.balance[tx.root.caller_address]
               = tx.snap.balance[tx.root.caller_address] + TxFee
                 - (tx.gas_price * GasUsed + tx.l1_fee)
                 + (IF tx.root.caller_address = block_ctx.coinbase
                    THEN RewardUnrefunded ELSE 0)

\* the end of a failing transaction that sent value and whose trace cleared
\* a storage slot: the transfer, the slot and the refund were rolled back
FailedTxChargedWitness ==
    /\ last.fn = "end_tx"
    /\ last.result = "Ok"
    /\ ~tx.root.is_success
    /\ tx.root.value > 0
    /\ \E k \in Ops : container[k].reversion /\ container[k].tag = "TxRefund"
    /\ \E k \in Ops : container[k].reversion /\ container[k].tag = "Storage"
    /\ \E k \in Ops : container[k].reversion /\ container[k].tag = "Account"

\* the refund read of the step and the caller's credit that follows it
RefundReads ==
    {k \in StepOps : container[k].tag = "TxRefund" /\ container[k].rw = "READ"}
RefundCap == GasUsed \div MAX_REFUND_QUOTIENT_OF_GAS_USED

\* C17: the refund that end-tx pays the caller on top of the unused gas is
\* the smaller of the refund counter and the gas used (gas limit less gas
\* left) divided by the maximum refund quotient, rounded down; it never
\* exceeds that quotient.
EffectiveRefund ==
    (last.fn = "end_tx" /\ last.result = "Ok") =>
        /\ Cardinality(RefundReads) = 1
        /\ \A r \in RefundReads :
              LET credit == container[r + 1]
                  paid == credit.value - credit.value_prev - tx.gas_price * tx.gas_left
              IN  /\ r + 1 \in CallerBalanceWrites
                  /\ container[r].value = sdb.refund
                  /\ paid = tx.gas_price * Min(container[r].value, RefundCap)
                  /\ paid <= tx.gas_price * RefundCap
                  /\ paid >= 0
                  /\ tx.gas_price * MAX_REFUND_QUOTIENT_OF_GAS_USED * RefundCap
                       <= tx.gas_price * GasUsed

\* a transaction that cleared a storage slot and used an amount of gas the
\* quotient does not divide: the refund counter exceeds the cap
EffectiveRefundWitness ==
    /\ last.fn = "end_tx"
    /\ last.result = "Ok"
    /\ sdb.refund = GasCost.SSTORE_CLEARS_SCHEDULE
    /\ sdb.refund > RefundCap
    /\ GasUsed % MAX_REFUND_QUOTIENT_OF_GAS_USED # 0

CallerCredit ==
    (last'.fn = "end_tx" /\ last'.result = "Ok") =>
        LET caller == tx.root.caller_address
            credit == container'[Len(container) + 4]
            refunded == Min(sdb.refund,
                            (tx.gas - tx.gas_left) \div MAX_REFUND_QUOTIENT_OF_GAS_USED)
            others == {k \in (Len(container) + 1)..Len(container') :
                          /\ k # Len(container) + 4
                          /\ container'[k].tag = "Account"
                          /\ container'[k].addr = caller}
        IN  /\ credit.tag = "Account" /\ credit.field = "Balance"
            /\ credit.rw = "WRITE" /\ credit.addr = caller
            /\ credit.value_prev = sdb.balance[caller]
            /\ credit.value
                 = sdb.balance[caller] + tx.gas_price * (tx.gas_left + refunded)
            /\ caller # block_ctx.coinbase =>
                  /\ others = {}
                  /\ sdb'.balance[caller] = credit.value
            /\ caller = block_ctx.coinbase =>
                  /\ Cardinality(others) = 1
                  /\ \A k \in others : container'[k].value_prev = credit.value

\* C18: end-tx records one balance write for the caller, right after the
\* refund read: its previous value is the balance the State Database holds
\* for the caller when end-tx starts, its value that balance plus gas price
\* times (gas left plus effective refund); the step has no other operation
\* on the caller's account, except the coinbase's credit when the caller is
\* the coinbase, which starts from the credited balance.
EndTxCallerCredit == [][CallerCredit]_vars

\* a caller that is not the coinbase was paid a refund on top of the unused
\* gas
EndTxCallerCreditWitness ==
    /\ last.fn = "end_tx"
    /\ last.result = "Ok"
    /\ block_ctx.coinbase # tx.root.caller_address
    /\ sdb.refund > 0
    /\ \E k \in CallerBalanceWrites :
          container[k].value - container[k].value_prev > tx.gas_price * tx.gas_left

\* the coinbase's credit: the balance write that follows the caller's
CoinbaseCredits ==
    {k \in StepOps : /\ k = last.from + 5
                     /\ container[k].tag = "Account"
                     /\ container[k].field = "Balance"
                     /\ container[k].rw = "WRITE"
                     /\ container[k].addr = block_ctx.coinbase}

FrameWrites ==
    {k \in StepOps : /\ container[k].tag = "CallContext"
                     /\ container[k].rw = "WRITE"
                     /\ FrameFieldIndex(container[k].field) # 0}

\* the branch begin-tx takes, by what the transaction and the callee are:
\* creation before precompile, precompile before empty code
BeginTxBranch ==
    IF tx.is_create THEN "create"
    ELSE IF is_precompiled(tx.root.address) THEN "precompile"
    ELSE IF tx.root.code_hash = CodeHash.empty THEN "empty"
    ELSE "code"

\* C21: begin-tx takes one of four branches, creation before precompile
\* and precompile before empty code: a creation and a call to an account
\* that is no precompile and has code write each of the thirteen fields of
\* the callee frame once, under the id of the root call; a call to a
\* precompile or to an account without code writes none of them; the
\* callee's code hash is read exactly when the callee is no precompile and
\* is not being created.
BeginTxBranches ==
    (last.fn = "begin_tx" /\ last.result = "Ok") =>
        /\ BeginTxBranch \in {"create", "code"} =>
              /\ Cardinality(FrameWrites) = Len(FrameFields)
              /\ \A i \in 1..Len(FrameFields) :
                    \E k \in FrameWrites :
                        /\ container[k].field = FrameFields[i]
                        /\ container[k].id = tx.root.call_id
              /\ \E k \in FrameWrites :
                    /\ container[k].field = "IsCreate"
                    /\ container[k].value = b2n(tx.is_create)
        /\ BeginTxBranch \in {"precompile", "empty"} => FrameWrites = {}
        /\ (\E k \in StepOps : BeginTxPhase(container[k]) = 6
                                  /\ container[k].tag = "Account")
              <=> BeginTxBranch = "create"
        /\ (\E k \in StepOps : /\ container[k].tag = "Account"
                                /\ container[k].field = "CodeHash"
                                /\ container[k].rw = "READ"
                                /\ container[k].addr = tx.root.address)
              <=> (~is_precompiled(tx.root.address) /\ ~tx.is_create)

\* a creation whose contract address lies in the precompile range has
\* written the callee frame
BeginTxBranchesWitness ==
    /\ last.fn = "begin_tx"
    /\ last.result = "Ok"
    /\ tx.is_create
    /\ is_precompiled(tx.root.address)
    /\ Cardinality(FrameWrites) = Len(FrameFields)

\* a SELFDESTRUCT step that ran its handler to the end
SelfDestructStep ==
    /\ last.fn = "step"
    /\ last.op = "SELFDESTRUCT"
    /\ last.path = "normal"
    /\ last.result = "Ok"

\* the operations reversion will undo: those the open reversion groups
\* hold
Reversible == UNION {{g.op_refs[i] : i \in 1..Len(g.op_refs)} :
                        g \in {groups[j] : j \in 1..Len(groups)}}

\* C22: a SELFDESTRUCT whose receiver is the sender has, after the
\* access-list write of the receiver, exactly three account operations:
\* writes of zero to the sender's Balance, Nonce and CodeHash in this
\* order; no operation credits the receiver; in a call that is not
\* persistent all of them are recorded for reversion.
SelfDestructToSelf ==
    (SelfDestructStep /\ last.receiver = last.call.address) =>
        LET f == last.from
            o(k) == container[f + k]
        IN  /\ StepOps = (f + 1)..(f + 4)
            /\ o(1).tag = "TxAccessListAccount" /\ o(1).addr = last.receiver
            /\ \A k \in 2..4 :
                  /\ o(k).tag = "Account" /\ o(k).rw = "WRITE"
                  /\ o(k).addr = last.call.address
                  /\ o(k).value = 0
            /\ <<o(2).field, o(3).field, o(4).field>>
                 = <<"Balance", "Nonce", "CodeHash">>
            /\ ~last.call.is_persistent => StepOps \subseteq Reversible
            /\ last.call.is_persistent => StepOps \cap Reversible = {}

\* a contract that holds a balance has destructed itself in its own favour
SelfDestructToSelfWitness ==
    /\ SelfDestructStep
    /\ last.receiver = last.call.address
    /\ container[last.from + 2].value_prev > 0
    /\ ~last.call.is_persistent

\* the step that is being taken is a SELFDESTRUCT that runs its handler to
\* the end
SelfDestructTaken ==
    /\ SelfDestructStep'
    /\ last'.from = Len(container)
    /\ Len(container') > Len(container)

\* a SELFDESTRUCT in a call that is not persistent leaves the sender's
\* code hash and storage as they were
SelfDestructKeepsCode ==
    (SelfDestructTaken /\ ~Last(calls).is_persistent) =>
        /\ sdb'.storage[Last(calls).address] = sdb.storage[Last(calls).address]
        /\ account_code_hash(sdb', Last(calls).address)
             = account_code_hash(sdb, Last(calls).address)

\* C23 as stated: in a call that is not persistent the sender's code and
\* storage are still present after the SELFDESTRUCT step.
SelfDestructKeepsAccount == [][SelfDestructKeepsCode]_vars

\* a SELFDESTRUCT destructs the sender exactly in a persistent call; in a
\* call that is not persistent the State Database keeps the sender's
\* storage and holds zero for its balance, nonce and code hash
SelfDestructEffect ==
    SelfDestructTaken =>
        LET a == Last(calls).address
        IN  /\ sdb'.destructed = IF Last(calls).is_persistent
                                  THEN sdb.destructed \cup {a}
                                  ELSE sdb.destructed
            /\ sdb'.code_hash[a] = CodeHash.zero
            /\ sdb'.nonce[a] = 0
            /\ last'.receiver = a => sdb'.balance[a] = 0
            /\ sdb'.storage[a] = IF Last(calls).is_persistent THEN 0
                                 ELSE sdb.storage[a]
            /\ \A b \in Addr \ {a} : sdb'.storage[b] = sdb.storage[b]

\* the compensating writes of the step that restore a code hash a
\* SELFDESTRUCT had zeroed
CodeHashRestored ==
    {k \in Appended : /\ container[k].reversion
                      /\ container[k].tag = "Account"
                      /\ container[k].field = "CodeHash"
                      /\ container[k].value_prev = 0
                      /\ container[k].value # 0}

\* after the reversion the sender has the code hash and the storage it had
\* when the reverted call began
SelfDestructUndone ==
    \A k \in CodeHashRestored :
        /\ last.undone.valid
        /\ account_code_hash(sdb, container[k].addr) = container[k].value
        /\ container[k].value = last.undone.snap.code_hash[container[k].addr]
        /\ sdb.storage[container[k].addr]
             = last.undone.snap.storage[container[k].addr]

\* C23: SELFDESTRUCT removes the sender account from the State Database
\* exactly when the enclosing call is persistent.  In a call that is not
\* persistent the step leaves the sender's storage alone and does not mark
\* the sender destructed, while its balance, nonce and code hash are zero
\* in the State Database after the step, by the step's reversible writes;
\* the reversion that follows restores the code hash, and code hash and
\* storage are then those the sender had when the reverted call began.
SelfDestructPersistent == [][SelfDestructEffect]_vars /\ []SelfDestructUndone

\* a contract with code and storage destructed itself in a call that is
\* not persistent, and the reversion has restored its code hash
SelfDestructPersistentWitness ==
    \E k \in CodeHashRestored :
        /\ container[k].value = CodeHash.code
        /\ sdb.code_hash[container[k].addr] = CodeHash.code
        /\ sdb.storage[container[k].addr] # 0
        /\ container[k].addr \notin sdb.destructed

\* a CALLVALUE step that ran its handler to the end
CallvalueStep ==
    /\ last.fn = "step"
    /\ last.op = "CALLVALUE"
    /\ last.path = "normal"
    /\ last.result = "Ok"

\* byte j of a word, counted from the least significant
RECURSIVE ByteAt(_, _)
ByteAt(v, j) == IF j = 0 THEN v % 256 ELSE ByteAt(v \div 256, j - 1)

MemoryWrites == {k \in StepOps : container[k].tag = "Memory" /\ container[k].rw = "WRITE"}
MemoryWrite(i) ==
    CHOOSE k \in MemoryWrites : Cardinality({j \in MemoryWrites : j < k}) = i

StackToMemoryStep ==
    /\ last.fn = "step"
    /\ last.op \in {"BLOCKHASH", "PC", "MSIZE", "GAS", "CHAINID"}
    /\ last.path = "normal"
    /\ last.result = "Ok"

\* the operands and the width of the variant that handles the opcode
Operands(op) == IF op = "BLOCKHASH" THEN 1 ELSE 0
Width(op, result) ==
    IF op = "BLOCKHASH" THEN 32
    ELSE IF op \in {"PC", "MSIZE", "GAS"} THEN 8
    ELSE Len(result)

\* C26: a stack-to-memory step with N operands has exactly 1 + N stack
\* reads, of the destination at the top slot and then of the operands from
\* the top down, followed by exactly W memory writes at destination, ...,
\* destination + W - 1, where W is 32 for BLOCKHASH, 8 for PC, MSIZE and
\* GAS and the length of the result buffer of the next trace step for the
\* other opcodes; the bytes written are the big-endian bytes of the result.
StackToMemoryOps ==
    StackToMemoryStep =>
        LET f == last.from
            o(k) == container[f + k]
            stack == last.choice.stack
            d == nth_last(stack, 0)
            N == Operands(last.op)
            W == Width(last.op, last.choice.result)
        IN  /\ last.handler = fn_gen_associated_ops(last.op)
            /\ last.handler = IF last.op = "BLOCKHASH" THEN "StackToMemoryOpcode<1,32>"
                              ELSE IF W = 8 /\ last.op # "CHAINID"
                              THEN "StackToMemoryOpcode<0,8>"
                              ELSE "StackToMemoryOpcode<0,0>"
            /\ StepOps = (f + 1)..(f + 1 + N + W)
            /\ Len(container) = f + 1 + N + W
            /\ \A i \in 0..N :
                  /\ o(1 + i).tag = "Stack" /\ o(1 + i).rw = "READ"
                  /\ o(1 + i).id = last.call.call_id
                  /\ o(1 + i).addr = 1024 - Len(stack) + i
                  /\ o(1 + i).value = nth_last(stack, i)
            /\ \A i \in 0..(W - 1) :
                  /\ o(2 + N + i).tag = "Memory" /\ o(2 + N + i).rw = "WRITE"
                  /\ o(2 + N + i).id = last.call.call_id
                  /\ o(2 + N + i).addr = d + i
                  /\ o(2 + N + i).value =
                        IF last.op = "CHAINID" THEN last.choice.result[i + 1]
                        ELSE ByteAt(last.choice.word, W - 1 - i)

\* a BLOCKHASH step with destination 127: the operand is read below the
\* destination and the last two of the 32 bytes written are 1 and 2
StackToMemoryOpsWitness ==
    /\ StackToMemoryStep
    /\ last.op = "BLOCKHASH"
    /\ container[last.from + 1].value = 127
    /\ container[last.from + 2].tag = "Stack"
    /\ container[last.from + 2].value = 5
    /\ Len(container) = last.from + 34
    /\ container[last.from + 33].value = 1
    /\ container[last.from + 34].value = 2
    /\ container[last.from + 34].addr = 158

\* a step at whose start the memory of the call context differs from the
\* global memory of the trace step, the trace recording memory
MemoryDiffers ==
    /\ last.fn = "step"
    /\ last.choice.memory_enabled
    /\ last.call.memory # last.choice.global_memory

\* C28: when the memory of the call context differs from the global memory
\* of the trace step at the start of a step, the difference is logged in
\* either setting of CHECK_MEM_STRICT; with the setting on, processing
\* aborts, and with it off the step is processed on the memory of the
\* trace.
MemoryCheckModes ==
    MemoryDiffers =>
        /\ last.mem_check = "logged"
        /\ block_ctx.CHECK_MEM_STRICT => last.result = "Panic"
        /\ ~block_ctx.CHECK_MEM_STRICT => last.result = "Ok"

\* C29: a trace is accepted only if the gas_left of the step after a GAS
\* step is the gas_left of the GAS step less the cost of the step, and the
\* value the GAS step writes is its gas_left less the constant cost of the
\* GAS opcode; a trace in which the gas_left of the next step is one off,
\* in either direction, is rejected.
GasDeduction ==
    /\ last.fn = "gas" =>
          /\ last.gas_cost = constant_gas_cost
          /\ last.choice.next_gas_left = last.gas_left - last.gas_cost
          /\ tx.gas_left = last.choice.next_gas_left
          /\ from_bytes(last.choice.bytes) = last.gas_left - constant_gas_cost
    /\ (/\ last.fn \in {"gas", "rejected"}
        /\ last.choice.next_gas_left \in
               {(last.gas_left - constant_gas_cost + d) % FieldModulus : d \in {-1, 1}})
           => last.fn = "rejected" /\ pc = "rejected"

\* a trace that is rejected though its cells hold the value the GAS step
\* writes: the gas_left of the next step is one less than it should be,
\* after a GAS step that was accepted
GasDeductionWitness ==
    /\ last.fn = "rejected"
    /\ block_ctx.steps >= 1
    /\ last.choice.bytes = gas_left_assignment(last.gas_left)
    /\ last.choice.next_gas_left = last.gas_left - constant_gas_cost - 1
    /\ last.gas_left > constant_gas_cost

\* a step given to the circuit as an out-of-gas error step of SLOAD or
\* SSTORE, and the call-context read of IsStatic among its lookups
OogStep == last.fn = "oog"
IsStaticRead == container[last.from + 2]

\* C27: a step that runs out of gas at an SLOAD or SSTORE is classified
\* OutOfGas(SloadSstore), the error dispatcher gives such a step the
\* handler of the SLOAD and SSTORE out-of-gas error, and the circuit accepts
\* it; an accepted step of SSTORE has a call-context read of IsStatic with
\* the value false.
OogSloadSstoreRouted ==
    OogStep =>
        /\ (/\ \/ last.gas_left < last.gas_cost
               \/ last.op = "SSTORE" /\ last.gas_left <= GasCost.SSTORE_SENTRY
            /\ ~(last.op = "SSTORE" /\ last.call.is_static))
              => last.error = "OutOfGas(SloadSstore)"
        /\ last.error = "OutOfGas(SloadSstore)" =>
              /\ last.handler = "OOGSloadSstore"
              /\ last.tag = "accepted"
        /\ (last.tag = "accepted" /\ last.op = "SSTORE") =>
              /\ IsStaticRead.tag = "CallContext"
              /\ IsStaticRead.rw = "READ"
              /\ IsStaticRead.field = "IsStatic"
              /\ IsStaticRead.id = last.call.call_id
              /\ IsStaticRead.value = 0
              /\ ~last.call.is_static

\* an SSTORE from a cold slot that runs out of gas in a call made by the
\* root call
OogSloadSstoreRoutedWitness ==
    /\ OogStep
    /\ last.op = "SSTORE"
    /\ ~last.choice.is_warm
    /\ last.frames = 2
    /\ last.error = "OutOfGas(SloadSstore)"
    /\ last.handler = "OOGSloadSstore"
    /\ last.tag = "accepted"
    /\ last.gas_left = last.gas_cost - 1
    /\ IsStaticRead.field = "IsStatic"

\* the gas an operation costs: the cold or the warm cost for SLOAD, and
\* for SSTORE a cost that depends on the word stored and on the current
\* and the original word of the slot
SloadSstoreCost ==
    IF last.op = "SLOAD"
    THEN IF last.choice.is_warm THEN GasCost.WARM_ACCESS ELSE GasCost.COLD_SLOAD
    ELSE cal_sstore_gas_cost_for_assignment(
             last.choice.value, last.choice.value_prev,
             last.choice.original_value, last.choice.is_warm)

\* C30: an out-of-gas error step of SLOAD or SSTORE (of SSTORE in a call
\* that is not static, as the gadget requires beside) is accepted exactly
\* when gas_left is less than the cost of the operation or, for SSTORE
\* only, gas_left is at most the SSTORE sentry; the run of a transaction
\* whose gas is one less than the base cost plus the cost of its program
\* ends in such an error step, which is accepted, in a root call and in a
\* call made by the root call.
OogSloadSstoreAccepted ==
    /\ OogStep =>
          /\ last.gas_cost = SloadSstoreCost
          /\ last.tag = "accepted" =>
                \/ last.gas_left < SloadSstoreCost
                \/ last.op = "SSTORE" /\ last.gas_left <= GasCost.SSTORE_SENTRY
          /\ (/\ ~(last.op = "SSTORE" /\ last.call.is_static)
              /\ \/ last.gas_left < SloadSstoreCost
                 \/ last.op = "SSTORE" /\ last.gas_left <= GasCost.SSTORE_SENTRY)
                => last.tag = "accepted"
    /\ (pc = "end" /\ tx.gas = GasCost.TX + last.choice.program_cost - 1) =>
          /\ OogStep
          /\ last.tag = "accepted"
          /\ last.error = "OutOfGas(SloadSstore)"
          /\ last.frames \in {1, 2}

\* an SSTORE in the root call that stores the word the cold slot holds:
\* it has the gas for its cost but no more than the sentry
OogSloadSstoreAcceptedWitness ==
    /\ OogStep
    /\ pc = "end"
    /\ last.op = "SSTORE"
    /\ last.choice.value = last.choice.value_prev
    /\ last.frames = 1
    /\ last.tag = "accepted"
    /\ last.gas_left >= last.gas_cost
    /\ last.gas_left = GasCost.SSTORE_SENTRY

\* the balances of all accounts together
RECURSIVE SumBalance(_, _)
SumBalance(balance, accounts) ==
    IF accounts = {} THEN 0
    ELSE LET a == CHOOSE x \in accounts : TRUE
         IN  balance[a] + SumBalance(balance, accounts \ {a})

\* a SELFDESTRUCT in favour of another account: the sender's balance write
\* carries zero, the receiver's the sum of the two balances from before
\* the step; unless the step has undone them, the State Database holds
\* these values and the balances of all accounts add up as before
SelfDestructCredit ==
    (SelfDestructTaken /\ last'.receiver # Last(calls).address) =>
        LET a == Last(calls).address
            r == last'.receiver
            o(k) == container'[Len(container) + k]
        IN  /\ Len(container') >= Len(container) + 5
            /\ o(2).tag = "Account" /\ o(2).field = "Balance"
            /\ o(2).rw = "WRITE" /\ o(2).addr = a
            /\ o(2).value = 0
            /\ o(2).value_prev = sdb.balance[a]
            /\ o(5).tag = "Account" /\ o(5).field = "Balance"
            /\ o(5).rw = "WRITE" /\ o(5).addr = r
            /\ o(5).value_prev = sdb.balance[r]
            /\ o(5).value = sdb.balance[r] + sdb.balance[a]
            /\ (\A k \in (Len(container) + 1)..Len(container') :
                    ~container'[k].reversion) =>
                  /\ sdb'.balance[a] = 0
                  /\ sdb'.balance[r] = sdb.balance[r] + sdb.balance[a]
                  /\ SumBalance(sdb'.balance, Addr) = SumBalance(sdb.balance, Addr)

\* C32: a SELFDESTRUCT whose receiver differs from the sender conserves
\* the total balance: the receiver's balance grows by exactly the balance
\* the sender had before the step, and the sender's balance becomes zero.
SelfDestructConserves == [][SelfDestructCredit]_vars

\* a contract with a balance has destructed itself in favour of an account
\* that had a balance of its own, and the step undid nothing
SelfDestructConservesWitness ==
    /\ SelfDestructStep
    /\ last.receiver # last.call.address
    /\ Len(container) = last.from + 5
    /\ container[last.from + 2].value_prev > 0
    /\ container[last.from + 5].value_prev > 0
    /\ container[last.from + 5].value
         = container[last.from + 5].value_prev + container[last.from + 2].value_prev
    /\ sdb.balance[last.call.address] = 0
    /\ sdb.balance[last.receiver] = container[last.from + 5].value

\* the access-list writes of the last top-level function
AccessListWrites ==
    {k \in StepOps : container[k].tag = "TxAccessListAccount"}

\* C33: each access-list write of begin-tx has is_warm = true and an
\* is_warm_prev that is true exactly when the address was in the access
\* list of the transaction at that moment, which is when an earlier write
\* of the step put it there; so when caller and callee are the same
\* address the second write has is_warm_prev = true, and after begin-tx
\* both addresses are in the access list.
BeginTxWarmUp ==
    (last.fn = "begin_tx" /\ last.result = "Ok") =>
        /\ Cardinality(AccessListWrites) = 2
        /\ \E k1, k2 \in AccessListWrites :
              /\ k1 < k2
              /\ container[k1].addr = tx.root.caller_address
              /\ container[k2].addr = tx.root.address
              /\ container[k1].value_prev = 0
              /\ container[k2].value_prev
                   = b2n(tx.root.caller_address = tx.root.address)
        /\ \A k \in AccessListWrites :
              /\ container[k].rw = "WRITE"
              /\ container[k].id = tx.id
              /\ container[k].value = 1
              /\ container[k].value_prev = 1
                   <=> \E j \in AccessListWrites :
                          j < k /\ container[j].addr = container[k].addr
        /\ {tx.root.caller_address, tx.root.address} \subseteq sdb.access

\* the second transaction of a block, which the caller sends to itself:
\* the second write finds the address in the access list
BeginTxWarmUpWitness ==
    /\ last.fn = "begin_tx"
    /\ last.result = "Ok"
    /\ tx.id = 2
    /\ tx.root.caller_address = tx.root.address
    /\ \E k \in AccessListWrites : container[k].value_prev = 1
    /\ \E k \in AccessListWrites : container[k].value_prev = 0

\* the credit of a balance write
Credit(k) == container[k].value - container[k].value_prev

TraceMemoryAfter ==
    IF last.choice.is_last THEN last.choice.global_memory
    ELSE last.choice.next_global_memory

\* C35: after a step processed without classified error, while a call is
\* active, the memory of the call context is the global memory of the next
\* trace step (of the step itself when it is the last of the trace); a step
\* with a classified error leaves the memory of the call context as it was.
CallContextMemory ==
    (last.fn = "step" /\ last.result = "Ok") =>
        /\ (last.path = "normal" /\ calls # <<>>) =>
              Last(calls).memory = TraceMemoryAfter
        /\ last.path \in {"handled", "unhandled"} =>
              /\ last.error # "None"
              /\ Len(calls) = last.frames
              /\ Last(calls).memory = last.call.memory

\* the last step of a trace whose global memory is not what the call
\* context held
CallContextMemoryWitness ==
    /\ last.fn = "step"
    /\ last.result = "Ok"
    /\ last.path = "normal"
    /\ last.choice.is_last
    /\ last.call.memory # last.choice.global_memory
    /\ Last(calls).memory = last.choice.global_memory
    /\ Last(calls).memory # last.choice.next_global_memory

\* the number of bytes of the unsigned LEB128 number that starts at byte
\* start (0-based) of the bytecode: up to the first byte with a clear
\* continuation bit; 0 when the bytecode has no such byte
LebLength(wb, start) ==
    IF \E n \in 1..(Len(wb) - start) : wb[start + n] \div Scaled.LEB_BASE = 0
    THEN CHOOSE n \in 1..(Len(wb) - start) :
             /\ wb[start + n] \div Scaled.LEB_BASE = 0
             /\ \A m \in 1..(n - 1) : wb[start + m] \div Scaled.LEB_BASE = 1
    ELSE 0

\* the value of the first n bytes from byte start on, as an unsigned LEB128
\* number
RECURSIVE LebValue(_, _, _)
LebValue(wb, start, n) ==
    IF n = 0 THEN 0
    ELSE LebValue(wb, start, n - 1)
         + (wb[start + n] % Scaled.LEB_BASE) * Scaled.LEB_BASE ^ (n - 1)

\* C40 as stated: wasm_compute_section_len returns the value of the
\* unsigned LEB128 number at the index and the number of its bytes, for
\* every encoding of at most MAX_LEB128_BYTES bytes; an index error when the
\* bytecode ends before a byte with a clear continuation bit; a max-bytes
\* error when the encoding is longer than the maximum; and never a wrapped
\* or truncated value.
SectionLenDecoded ==
    circuit.fn = "wasm_compute_section_len" =>
        /\ LebLength(circuit.wb, circuit.index) \in 1..MAX_LEB128_BYTES =>
              /\ circuit.result = "Ok"
              /\ circuit.count = LebLength(circuit.wb, circuit.index)
        /\ circuit.result = "Ok" =>
              circuit.section_len
                  = LebValue(circuit.wb, circuit.index, circuit.count)
        /\ (/\ LebLength(circuit.wb, circuit.index) = 0
            /\ Len(circuit.wb) - circuit.index < MAX_LEB128_BYTES) =>
              circuit.result = "IndexOutOfBoundsSimple"
        /\ (/\ Len(circuit.wb) - circuit.index >= MAX_LEB128_BYTES
            /\ LebLength(circuit.wb, circuit.index) \notin 1..MAX_LEB128_BYTES) =>
              circuit.result = "Leb128MaxBytes"

\* the span [index, index + len) of the last markup call lies inside the
\* bytecode
SpanInside == circuit.index + circuit.len <= Len(circuit.wb)

\* C39 as stated: markup_bytes_section and markup_name_section succeed for
\* every span inside the bytecode, a span that ends at its last byte
\* included, mark each byte of the span once, at the row of the byte
\* shifted by the assign delta, and return offset + len; they fail with an
\* index-out-of-bounds error exactly when the span reaches past the end.
MarkupSpanMarked ==
    circuit.fn \in {"markup_bytes_section", "markup_name_section"} =>
        /\ SpanInside =>
              /\ circuit.result = "Ok"
              /\ circuit.offset = circuit.index + circuit.len
              /\ Len(circuit.region) = circuit.len
              /\ \A k \in 1..circuit.len :
                    /\ circuit.region[k].wb_offset = circuit.index + k - 1
                    /\ circuit.region[k].row
                         = circuit.index + k - 1 + circuit.assign_delta
        /\ ~SpanInside => circuit.result = "IndexOutOfBounds"

\* the bytecodes laid out in full: the rows from a q_first row to the next
\* q_last row
BytecodeRows ==
    {b \in [first : 1..Len(circuit.region), last : 1..Len(circuit.region)] :
        /\ b.first <= b.last
        /\ Cell(circuit.region, b.first, "q_first") = 1
        /\ Cell(circuit.region, b.last, "q_last") = 1
        /\ \A r \in b.first..(b.last - 1) :
              Cell(circuit.region, r, "q_last") = 0}

\* the error code gate holds on every row of the bytecode
ErrorCodeAccepted(b) ==
    \A r \in b.first..b.last : Satisfied(error_code_gate(circuit.region, r))

\* C38: within one bytecode the error code is sticky: on the rows that the
\* error code gate accepts it is 0 or 1 on every row, once it is 1 on a row
\* it is 1 on every later row up to the last, and a row with error code 0
\* has only rows with error code 0 before it.
ErrorCodeSticky ==
    \A b \in BytecodeRows :
        ErrorCodeAccepted(b) =>
            /\ \A r \in b.first..b.last :
                  Cell(circuit.region, r, "error_code") \in {0, 1}
            /\ \A r1, r2 \in b.first..b.last :
                  (r1 < r2 /\ Cell(circuit.region, r1, "error_code") = 1) =>
                      Cell(circuit.region, r2, "error_code") = 1
            /\ \A r1, r2 \in b.first..b.last :
                  (r1 < r2 /\ Cell(circuit.region, r2, "error_code") = 0) =>
                      Cell(circuit.region, r1, "error_code") = 0

\* an accepted bytecode whose error code turns from 0 to 1, after a
\* bytecode that ended with error code 1
ErrorCodeStickyWitness ==
    \E b1, b2 \in BytecodeRows :
        /\ b1.last + 1 = b2.first
        /\ ErrorCodeAccepted(b1)
        /\ ErrorCodeAccepted(b2)
        /\ Cell(circuit.region, b1.last, "error_code") = 1
        /\ b2.first < b2.last
        /\ Cell(circuit.region, b2.first, "error_code") = 0
        /\ Cell(circuit.region, b2.last, "error_code") = 1

\* the rows of the region, and the count prefix of the section body
BodyRows == 1..Len(circuit.region)
CountPrefix == leb128_compute_sn(circuit.wb, 0)
CountRows == 1..(CountPrefix.last_byte_offset + 1)

\* the first row of an item: the first byte of a type index in the
\* function section, the type byte of a segment in the data section
FirstItemRows ==
    {r \in BodyRows :
        IF circuit.chip = "function"
        THEN Cell(circuit.region, r, "is_typeidx") * Cell(circuit.region, r, "leb_is_first_byte") = 1
        ELSE Cell(circuit.region, r, "is_mem_segment_type") = 1}

CountPrefixedItemsGate(r, error_processing_enabled) ==
    IF circuit.chip = "function"
    THEN function_count_prefixed_items(circuit.region, r, error_processing_enabled)
    ELSE data_count_prefixed_items(circuit.region, r, error_processing_enabled)

\* C36: the rows assign_auto lays out for a function or data section body
\* of any item count satisfy the count prefixed items gate: the reverse
\* item counter is the decoded item count on every row of the count
\* prefix, one less than on the row before on the first row of each item,
\* the same as on the row before on the other rows of an item, and zero
\* on the last row of the body.
ItemCounterCountsDown ==
    circuit.fn \in {"function_assign_auto", "data_assign_auto"} =>
        /\ circuit.result = "Ok"
        /\ circuit.offset = Len(circuit.wb)
        /\ \A r \in BodyRows, error_processing_enabled \in BOOLEAN :
              Satisfied(CountPrefixedItemsGate(r, error_processing_enabled))
        /\ \A r \in CountRows :
              /\ Cell(circuit.region, r, "is_items_count") = 1
              /\ Cell(circuit.region, r, "body_item_rev_count") = CountPrefix.sn
        /\ Cardinality(FirstItemRows) = CountPrefix.sn
        /\ \A r \in BodyRows \ CountRows :
              /\ Cell(circuit.region, r, "is_items_count") = 0
              /\ Cell(circuit.region, r, "body_item_rev_count")
                   = Cell(circuit.region, r - 1, "body_item_rev_count")
                        - (IF r \in FirstItemRows THEN 1 ELSE 0)
        /\ Cell(circuit.region, Len(circuit.region), "q_last") = 1
        /\ \A r \in BodyRows : Cell(circuit.region, r, "q_last") = 1 => r = Len(circuit.region)
        /\ Cell(circuit.region, Len(circuit.region), "body_item_rev_count") = 0

\* a data section body of two segments with a count prefix of two rows is
\* laid out: the counter is 2, 2, then 1 on the first segment and 0 on
\* the second
ItemCounterCountsDownWitness ==
    /\ circuit.fn = "data_assign_auto"
    /\ circuit.result = "Ok"
    /\ CountPrefix.sn = 2
    /\ Cardinality(CountRows) = 2
    /\ \E r \in FirstItemRows : Cell(circuit.region, r, "body_item_rev_count") = 1
    /\ \E r \in FirstItemRows : Cell(circuit.region, r, "body_item_rev_count") = 0
    /\ \E r \in BodyRows \ (CountRows \cup FirstItemRows) :
          Cell(circuit.region, r, "body_item_rev_count") = 1

\* the rows of the bytes of the segments, and the last byte row of each
SegmentByteRows == {r \in BodyRows : Cell(circuit.region, r, "is_mem_segment_bytes") = 1}
SegmentTypes == {Cell(circuit.region, r, "byte") : r \in FirstItemRows}

\* C37 as stated: the rows assign_auto lays out for a data segment of any
\* segment type satisfy the len prefixed body gate; the reverse byte index
\* is one less than on the row before on each byte row of the segment and
\* zero on its last byte, and the segment type value of every row of the
\* segment after its type byte is that of the row before.
SegmentSpanRules ==
    circuit.fn = "data_assign_auto" =>
        /\ circuit.result = "Ok"
        /\ \A r \in BodyRows : Satisfied(data_len_prefixed_bytes_span(circuit.region, r))
        /\ \A r \in SegmentByteRows :
              /\ Cell(circuit.region, r, "body_byte_rev_index")
                    = Cell(circuit.region, r - 1, "body_byte_rev_index") - 1
              /\ (r + 1 \notin SegmentByteRows)
                    => Cell(circuit.region, r, "body_byte_rev_index") = 0
        /\ \A r \in FirstItemRows :
              Cell(circuit.region, r, "mem_segment_type") = Cell(circuit.region, r, "byte")
        /\ \A r \in BodyRows \ (CountRows \cup FirstItemRows) :
              Cell(circuit.region, r, "mem_segment_type")
                 = Cell(circuit.region, r - 1, "mem_segment_type")

\* what holds of the segments: the rules hold when every segment of the
\* body is active (segment type 0, the value an unassigned cell reads)
ActiveSegmentsSpanRules ==
    (circuit.fn = "data_assign_auto" /\ SegmentTypes \subseteq {0}) => SegmentSpanRules

\* the loop over the table section body has ended: an assign_auto failed,
\* or the offset reached the end of the bytecode
TableLoopEnded ==
    /\ circuit.chip = "table"
    /\ circuit.fn = "table_assign_auto"
    /\ circuit.result # "Ok" \/ circuit.offset >= Len(circuit.wb)

\* the number of tables the body declares
TableCount == CountPrefix.sn

TableGatesHold ==
    \A r \in BodyRows :
        /\ \A error_processing_enabled \in BOOLEAN :
              Satisfied(table_body_gate(circuit.region, r, error_processing_enabled))
        /\ Satisfied(limit_type_params_gate(circuit.region, r))

\* C31 as stated: for every well-formed table section body, whatever the
\* number of tables it declares, the repeated assign_auto calls end
\* without error at the end of the bytecode and every row satisfies the
\* table body gate and the limit parameters gate, with every row enabled.
TableBodyAccepted ==
    TableLoopEnded =>
        /\ circuit.result = "Ok"
        /\ circuit.offset = Len(circuit.wb)
        /\ \A r \in BodyRows : Cell(circuit.region, r, "q_enable") = 1
        /\ TableGatesHold

\* what holds of the table bodies: a body that declares one funcref table
\* is laid out to its end and accepted, a body that declares none or two
\* is not
SingleTableAccepted ==
    TableLoopEnded =>
        /\ (TableCount = 1 /\ \A i \in 1..Len(circuit.wb) : circuit.wb[i] # 111) => TableBodyAccepted
        /\ TableCount # 1 => circuit.result # "Ok"

====
